---- MODULE Spec2Model ----
(***************************************************************************)
(* The agent orchestration core of mcp-lab: tool discovery, the first      *)
(* reasoning call, decision parsing, sequential tool execution through the *)
(* ToolRouter, and synthesis.  One behaviour is one run of MCPAgent.run    *)
(* (mode "run") or of chat() (mode "chat").                                *)
(***************************************************************************)
EXTENDS Integers, Sequences, FiniteSets, TLC

\* Largest number of tool calls in one structured tool_calls batch.
MaxBatch == 2

MaxCalls == 3

(***************************************************************************)
(* JSON values.  Every value that may stand where tool arguments stand is  *)
(* a record [t, m]: t = "map" is a JSON object whose members are m,        *)
(* t = "null" is null / Python None, t = "str" a non-empty JSON string.    *)
(* A member of an arguments object is [w, b]: the scalar b wrapped in w    *)
(* objects of the form {"value": ...}.                                     *)
(***************************************************************************)
NoMembers == [k \in {} |-> [w |-> 0, b |-> "-"]]

JNull == [t |-> "null", m |-> NoMembers]

JStr == [t |-> "str", m |-> NoMembers]

JMap(m) == [t |-> "map", m |-> m]

Scalar(b) == [w |-> 0, b |-> b]

Wrapped(b) == [w |-> 1, b |-> b]

\* Python truthiness of a JSON value: None and {} are falsy.
Truthy(v) == (v.t = "str") \/ (v.t = "map" /\ DOMAIN v.m # {})

\* Python's `a or b`.
PyOr(a, b) == IF Truthy(a) THEN a ELSE b

\* isinstance(v, dict)
IsDict(v) == v.t = "map"

(***************************************************************************)
(* Tool invocation requests: {"function": {"name": n, "arguments": a}}.    *)
(***************************************************************************)
ToolCall(n, a) == [name |-> n, arguments |-> a]

PathA == [k \in {"path"} |-> Scalar("a.txt")]

PathWrapped == [k \in {"path"} |-> Wrapped("a.txt")]

SqlSelect == [k \in {"sql"} |-> Scalar("SELECT")]

SqlUnquoted == [k \in {"sql"} |-> Scalar("UNQUOTED")]

SqlDrop == [k \in {"sql"} |-> Scalar("DROP")]

\* The requests a reasoning backend is taken to produce in its structured
\* tool_calls field: well-formed ones, one naming a tool no backend lists,
\* one failing validation, and two whose arguments are not an object.
Requests ==
    { ToolCall("read_file", JMap(PathA)),
      ToolCall("read_file", JMap(PathWrapped)),
      ToolCall("query_db", JMap(SqlUnquoted)),
      ToolCall("query_db", JMap(SqlDrop)),
      ToolCall("ghost", JMap(NoMembers)),
      ToolCall("list_tables", JNull),
      ToolCall("read_file", JStr) }

SeqsUpTo(S, n) == UNION { [1..k -> S] : k \in 0..n }

Batches == SeqsUpTo(Requests, MaxBatch)

(***************************************************************************)
(* Free-text content.  A text is a sequence of segments: "ws" is a run of  *)
(* whitespace, "prose" a run of characters holding no brace, "obj" a chunk *)
(* that starts with "{" and ends with "}".  An "obj" chunk has a form:     *)
(* "json" is the text of the JSON object obj, "badesc" is that text with   *)
(* invalid backslash escapes in it, "broken" is no JSON even once the      *)
(* escapes are repaired.  A JSON object is [keys, name, parameters,        *)
(* arguments]: keys are the members it has among these three.              *)
(***************************************************************************)
JObject(keys, n, p, a) == [keys |-> keys, name |-> n, parameters |-> p, arguments |-> a]

NoObject == JObject({}, "-", JNull, JNull)

Ws == [s |-> "ws", form |-> "-", obj |-> NoObject]

Prose == [s |-> "prose", form |-> "-", obj |-> NoObject]

Chunk(form, o) == [s |-> "obj", form |-> form, obj |-> o]

\* content: the key is missing from the message, is null, or is a text.
Missing == [kind |-> "missing", text |-> << >>]

Null == [kind |-> "null", text |-> << >>]

Text(segs) == [kind |-> "text", text |-> segs]

\* A response message: {"role": "assistant", "content": ..., "tool_calls": ...}.
\* tc says whether the tool_calls key is missing, null, or a list (calls).
Message(c, tc, calls) == [content |-> c, tc |-> tc, calls |-> calls]

(***************************************************************************)
(* lib.sanitizers is not among the sources; these follow the specification *)
(* of the JSON-repair step, validation, SQL fix-up and output              *)
(* normalisation.                                                          *)
(***************************************************************************)
\* clean_json_text: repair invalid backslash escapes, leave the rest as is.
clean_json_text(json_str) ==
    [i \in DOMAIN json_str |->
        IF json_str[i].s = "obj" /\ json_str[i].form = "badesc"
        THEN [json_str[i] EXCEPT !.form = "json"]
        ELSE json_str[i]]

\* str.strip(): drop leading and trailing whitespace.
RECURSIVE LStrip(_)
LStrip(t) == IF t # << >> /\ Head(t).s = "ws" THEN LStrip(Tail(t)) ELSE t

RECURSIVE RStrip(_)
RStrip(t) ==
    IF t # << >> /\ t[Len(t)].s = "ws" THEN RStrip(SubSeq(t, 1, Len(t) - 1)) ELSE t

Strip(t) == RStrip(LStrip(t))

\* re.search(r"(\{.*\})", content, re.DOTALL): from the first "{" to the
\* last "}" of the text; << >> when there is no match.
BraceAt(t) == { i \in DOMAIN t : t[i].s = "obj" }

Min(S) == CHOOSE x \in S : \A y \in S : x <= y

Max(S) == CHOOSE x \in S : \A y \in S : x >= y

StartsEndsWithBrace(t) == t # << >> /\ t[1].s = "obj" /\ t[Len(t)].s = "obj"

\* A variant of the search that accepts the whole text only.
JsonSearchWhole(t) == IF StartsEndsWithBrace(t) THEN t ELSE << >>

JsonSearch(t) ==
    IF BraceAt(t) = {} THEN << >> ELSE SubSeq(t, Min(BraceAt(t)), Max(BraceAt(t)))

\* json.loads: the text must be one well-formed JSON object.
JsonLoadsOk(json_str) == Len(json_str) = 1 /\ json_str[1].form = "json"

JsonLoads(json_str) == json_str[1].obj

\* dict.get(key) on the parsed object: None when the key is absent.
GetParameters(o) == IF "parameters" \in o.keys THEN o.parameters ELSE JNull

GetArguments(o) == IF "arguments" \in o.keys THEN o.arguments ELSE JNull

(***************************************************************************)
(* LLMClient.parse_tool_calls.  The result is [exc, none, tool_calls,      *)
(* is_direct_answer]: exc is the exception raised ("none" when it returns),*)
(* none says the first component returned is None.                         *)
(***************************************************************************)
Returned(none, calls, direct) ==
    [exc |-> "none", none |-> none, tool_calls |-> calls, is_direct_answer |-> direct]

Raised(e) == [exc |-> e, none |-> TRUE, tool_calls |-> << >>, is_direct_answer |-> FALSE]

Fallback(content) ==
    LET json_match == JsonSearch(content)
        json_str == clean_json_text(IF json_match # << >> THEN json_match ELSE content)
        fake_tool == JsonLoads(json_str)
        args == PyOr(GetParameters(fake_tool), GetArguments(fake_tool))
    IN  IF ~(json_match # << >> \/ StartsEndsWithBrace(content))
        THEN Returned(TRUE, << >>, TRUE)
        ELSE IF ~JsonLoadsOk(json_str)
        THEN Returned(TRUE, << >>, TRUE)
        ELSE IF "name" \in fake_tool.keys
                /\ ("parameters" \in fake_tool.keys \/ "arguments" \in fake_tool.keys)
        THEN Returned(FALSE, << ToolCall(fake_tool.name, args) >>, FALSE)
        ELSE Returned(TRUE, << >>, TRUE)

\* A variant of parse_tool_calls that looks at the content before the
\* structured field.
parse_tool_calls_content_first(message) ==
    IF message.content.kind = "text" /\ Strip(message.content.text) # << >>
       /\ ~Fallback(Strip(message.content.text)).none
    THEN Fallback(Strip(message.content.text))
    ELSE IF message.tc = "list" /\ message.calls # << >>
    THEN Returned(FALSE, message.calls, FALSE)
    ELSE IF message.content.kind = "null"
    THEN Raised("AttributeError")
    ELSE IF Strip(message.content.text) = << >>
    THEN Returned(TRUE, << >>, FALSE)
    ELSE Returned(TRUE, << >>, TRUE)

parse_tool_calls(message) ==
    IF message.tc = "list" /\ message.calls # << >>
    THEN Returned(FALSE, message.calls, FALSE)
    ELSE IF message.content.kind = "null"
    THEN Raised("AttributeError")
    ELSE IF Strip(message.content.text) = << >>
    THEN Returned(TRUE, << >>, FALSE)
    ELSE Fallback(Strip(message.content.text))

(***************************************************************************)
(* The responses the reasoning backend is taken to give.                   *)
(***************************************************************************)
\* {"name": "query_db", "parameters": {"sql": "SELECT 1"}}
ObjQuery == JObject({"name", "parameters"}, "query_db", JMap(SqlSelect), JNull)

\* {"name": "list_tables", "parameters": {}}
ObjEmptyParams == JObject({"name", "parameters"}, "list_tables", JMap(NoMembers), JNull)

\* {"name": "read_file", "arguments": {"path": "a.txt"}}
ObjArgs == JObject({"name", "arguments"}, "read_file", JNull, JMap(PathA))

\* {"name": "read_file", "parameters": {}, "arguments": {"path": "a.txt"}}
ObjBothEmptyParams ==
    JObject({"name", "parameters", "arguments"}, "read_file", JMap(NoMembers), JMap(PathA))

\* {"name": "query_db", "parameters": {"sql": ...}, "arguments": {"path": ...}}
ObjBoth ==
    JObject({"name", "parameters", "arguments"}, "query_db", JMap(SqlSelect), JMap(PathA))

\* {"name": "read_file", "arguments": null}
ObjNullArgs == JObject({"name", "arguments"}, "read_file", JNull, JNull)

\* {"name": "read_file"} and {"parameters": {...}}: a required key is missing.
ObjNameOnly == JObject({"name"}, "read_file", JNull, JNull)

ObjNoName == JObject({"parameters"}, "-", JMap(PathA), JNull)

Objects ==
    { ObjQuery, ObjEmptyParams, ObjArgs, ObjBothEmptyParams, ObjBoth, ObjNullArgs,
      ObjNameOnly, ObjNoName }

\* Texts: empty, blank, prose, one JSON object (bare, padded with whitespace,
\* with bad escapes, broken), an object inside prose, two objects.
Texts ==
    { << >>, << Ws >>, << Prose >>, << Ws, Prose, Ws >>, << Chunk("broken", NoObject) >> }
    \cup { << Chunk("json", o) >> : o \in Objects }
    \cup { << Ws, Chunk("json", ObjQuery), Ws >>,
           << Chunk("badesc", ObjArgs) >>,
           << Prose, Chunk("json", ObjArgs), Prose >>,
           << Chunk("json", ObjArgs), Prose, Chunk("json", ObjQuery) >> }

Contents == { Missing, Null } \cup { Text(t) : t \in Texts }

\* Every message: any content with any state of the structured field.
Messages ==
    { Message(c, tc, << >>) : c \in Contents, tc \in {"missing", "null", "list"} }
    \cup { Message(c, "list", b) : c \in Contents, b \in Batches \ {<< >>} }

\* The first responses of a run: every content with an empty structured
\* field, and every batch with a null content or a content that the
\* fallback would turn into a tool call.
FirstResponses ==
    { Message(c, tc, << >>) : c \in Contents, tc \in {"missing", "list"} }
    \cup { Message(c, "list", b) :
             c \in {Null, Text(<< Chunk("json", ObjQuery) >>)}, b \in Batches \ {<< >>} }

\* The second responses: a text, a response whose message has no content
\* key, a null content, and a text that comes with further tool calls.
SecondResponses ==
    { Message(Text(<< Prose >>), "missing", << >>),
      Message(Missing, "missing", << >>),
      Message(Null, "list", << >>),
      Message(Text(<< Prose >>), "list", << ToolCall("read_file", JMap(PathA)) >>) }

\* What a call of the reasoning backend ends in besides a response.
LLMFailures == {"Timeout", "ConnectionError", "HTTPError"}

(***************************************************************************)
(* Configuration: lib.config.  The value of an environment variable is a   *)
(* string, kept as the URL scheme it starts with ("" when it starts with   *)
(* none) and the rest; the empty string has neither.  os.environ is a      *)
(* function from the variables that are set to their values.               *)
(***************************************************************************)
Value(scheme, rest) == [scheme |-> scheme, rest |-> rest]

EmptyString == Value("", "")

\* os.environ.get(key, default)
EnvGet(env, key, default) == IF key \in DOMAIN env THEN env[key] ELSE default

\* AppConfig.__init__: the settings read from the environment.
AppConfig(env) ==
    [none |-> FALSE,
     ollama_url |-> EnvGet(env, "OLLAMA_URL", Value("https://", "myollama.my.address.it")),
     model_name |-> EnvGet(env, "MODEL_NAME", Value("", "llama3")),
     mcp_file_url |-> EnvGet(env, "MCP_FILE_URL", Value("http://", "mcp-file:3333")),
     mcp_db_url |-> EnvGet(env, "MCP_DB_URL", Value("http://", "mcp-db:3334"))]

\* _config_instance = None
NoConfig ==
    [none |-> TRUE, ollama_url |-> EmptyString, model_name |-> EmptyString,
     mcp_file_url |-> EmptyString, mcp_db_url |-> EmptyString]

\* AppConfig.validate: the exception it raises, "none" when it returns True.
validate(config) ==
    IF config.ollama_url = EmptyString THEN "ValueError"
    ELSE IF config.model_name = EmptyString THEN "ValueError"
    ELSE IF config.ollama_url.scheme \notin {"http://", "https://"} THEN "ValueError"
    ELSE "none"

\* get_config: the singleton after the call, the exception raised and the
\* object returned (NoConfig when it raises).
get_config(instance, env) ==
    IF instance.none
    THEN [instance |-> AppConfig(env),
          exc |-> validate(AppConfig(env)),
          returned |-> IF validate(AppConfig(env)) = "none" THEN AppConfig(env) ELSE NoConfig]
    ELSE [instance |-> instance, exc |-> "none", returned |-> instance]

\* reset_config: the singleton after the call.
reset_config(instance) == NoConfig

\* The environments: each variable unset, empty, without scheme, or good.
EmptyEnv == [k \in {} |-> EmptyString]

OllamaUrls == { EmptyString, Value("", "localhost:11434"), Value("http://", "localhost:11434") }

ModelNames == { EmptyString, Value("", "llama3.2:3b") }

McpFileUrls == { EmptyString, Value("", "mcp-file:3333") }

McpDbUrls == { EmptyString }

EnvValues(key) ==
    CASE key = "OLLAMA_URL" -> OllamaUrls
      [] key = "MODEL_NAME" -> ModelNames
      [] key = "MCP_FILE_URL" -> McpFileUrls
      [] key = "MCP_DB_URL" -> McpDbUrls

EnvKeys == {"OLLAMA_URL", "MODEL_NAME", "MCP_FILE_URL", "MCP_DB_URL"}

(***************************************************************************)
(* Discovery: MCPClient and discover_all_tools.                            *)
(***************************************************************************)
\* A URL is its part without trailing path and what follows it.
Url(base, suffix) == [base |-> base, suffix |-> suffix]

\* AppConfig defaults for MCP_FILE_URL and MCP_DB_URL.
mcp_file_url == Url("http://mcp-file:3333", "")

mcp_db_url == Url("http://mcp-db:3334", "")

\* A variant of MCPClient.__init__ that keeps the URL as configured.
MCPClientUrlAsGiven(u) == u

\* MCPClient.__init__: rstrip('/'), then append /mcp unless it ends with it.
MCPClientUrl(u) ==
    LET stripped == IF u.suffix = "/" THEN ""
                    ELSE IF u.suffix = "/mcp/" THEN "/mcp"
                    ELSE u.suffix
    IN  IF stripped = "/mcp" THEN Url(u.base, stripped)
        ELSE Url(u.base, "/mcp")

\* What list_tools of a backend may answer: a backend hosts one or more
\* tools.  Both backends may list a tool named read_file.
FileListings == { << "read_file" >>, << "read_file", "list_files" >> }

DbListings == { << "query_db" >>, << "query_db", "read_file" >> }

\* mcp_to_ollama_tool: {"type": "function", "function": {"name": ...}}.
mcp_to_ollama_tool(mcp_tool) == [type |-> "function", name |-> mcp_tool]

\* A variant of the loop that keeps the URL a name already has.
AddToServerMapKeepFirst(map, listing, url) ==
    [n \in DOMAIN map \cup { listing[i] : i \in DOMAIN listing } |->
        IF n \in DOMAIN map THEN map[n] ELSE url]

\* The loop `for tool in tools: server_map[tool["name"]] = url`.
RECURSIVE AddToServerMap(_, _, _)
AddToServerMap(map, listing, url) ==
    IF listing = << >> THEN map
    ELSE AddToServerMap(
            [n \in DOMAIN map \cup {Head(listing)} |->
                IF n = Head(listing) THEN url ELSE map[n]],
            Tail(listing), url)

EmptyMap == [n \in {} |-> Url("-", "")]

\* How a backend may fail to answer list_tools.
DiscoveryFailures == {"Timeout", "ConnectionRefused", "Malformed"}

\* What the session with a backend ends in: a failure or a listing.
Failed(failure) == [exc |-> failure, tools |-> << >>]

Listed(listing) == [exc |-> "none", tools |-> listing]

FileReplies == { Failed(f) : f \in DiscoveryFailures } \cup { Listed(l) : l \in FileListings }

DbReplies == { Failed(f) : f \in DiscoveryFailures } \cup { Listed(l) : l \in DbListings }

\* MCPClient.get_tools: [exc, tools].  Any exception of the session is
\* raised again as ConnectionError; otherwise the listing is returned.
get_tools(reply) ==
    IF reply.exc # "none" THEN [exc |-> "ConnectionError", tools |-> << >>]
    ELSE Listed(reply.tools)

\* A variant of the try block in which a failure discards what the
\* backends before it listed.
TryBackendAllOrNothing(mcp_tools, map, got, url) ==
    IF got.exc # "none" THEN [tools |-> << >>, map |-> EmptyMap]
    ELSE [tools |-> mcp_tools \o got.tools, map |-> AddToServerMap(map, got.tools, url)]

\* One try block of _discover_all_tools_async: the tools gathered and the
\* server map after it.  `except Exception` skips a backend that failed.
TryBackend(mcp_tools, map, got, url) ==
    IF got.exc # "none" THEN [tools |-> mcp_tools, map |-> map]
    ELSE [tools |-> mcp_tools \o got.tools, map |-> AddToServerMap(map, got.tools, url)]

(***************************************************************************)
(* ToolRouter.                                                             *)
(***************************************************************************)
\* execute_tools, lines 256-261: unwrap {"value": x} one level.
\* A variant that unwraps every level.
UnwrapAll(value) == [value EXCEPT !.w = 0]

Unwrap(value) == IF value.w > 0 THEN [value EXCEPT !.w = value.w - 1] ELSE value

NormalizeArgs(raw_args) == [key \in DOMAIN raw_args |-> Unwrap(raw_args[key])]

\* validate_tool_arguments: TRUE when it raises; a query_db call whose SQL
\* holds a destructive statement is rejected.
validate_tool_arguments(tool_name, arguments) ==
    /\ tool_name = "query_db"
    /\ "sql" \in DOMAIN arguments
    /\ arguments["sql"].b = "DROP"

\* fix_sql_args: quote the string literals of the SQL that lack quotes.
fix_sql_args(arguments) ==
    [key \in DOMAIN arguments |->
        IF key = "sql" /\ arguments[key].b = "UNQUOTED"
        THEN [arguments[key] EXCEPT !.b = "SELECT"]
        ELSE arguments[key]]

\* sanitize_output: one uniform payload whatever the raw shape was.
sanitize_output(raw) == [shape |-> "object", raw |-> raw.shape, served |-> raw.served]

NoPayload == [shape |-> "-", raw |-> "-", served |-> ToolCall("-", NoMembers)]

\* route: raises KeyError for a name that is not registered.
route(map, tool_name) ==
    IF tool_name \notin DOMAIN map
    THEN [exc |-> "KeyError", url |-> Url("-", "")]
    ELSE [exc |-> "none", url |-> map[tool_name]]

\* A variant of execute_tool that routes before it validates.
execute_tool_route_first(map, tool_name, arguments) ==
    LET fixed == IF tool_name = "query_db" THEN fix_sql_args(arguments) ELSE arguments
        server_url == route(map, tool_name)
    IN  IF server_url.exc # "none"
        THEN [exc |-> server_url.exc, url |-> Url("-", ""), call |-> ToolCall(tool_name, arguments)]
        ELSE IF validate_tool_arguments(tool_name, arguments)
        THEN [exc |-> "ValidationError", url |-> Url("-", ""), call |-> ToolCall(tool_name, arguments)]
        ELSE [exc |-> "none", url |-> server_url.url, call |-> ToolCall(tool_name, fixed)]

\* execute_tool up to the HTTP request: the exception it raises, or the
\* request it posts.
execute_tool(map, tool_name, arguments) ==
    LET fixed == IF tool_name = "query_db" THEN fix_sql_args(arguments) ELSE arguments
        server_url == route(map, tool_name)
    IN  IF validate_tool_arguments(tool_name, arguments)
        THEN [exc |-> "ValidationError", url |-> Url("-", ""), call |-> ToolCall(tool_name, arguments)]
        ELSE IF server_url.exc # "none"
        THEN [exc |-> server_url.exc, url |-> Url("-", ""), call |-> ToolCall(tool_name, fixed)]
        ELSE [exc |-> "none", url |-> server_url.url, call |-> ToolCall(tool_name, fixed)]

\* What the backend does with a posted request.
Outcomes == {"200", "status", "Timeout", "ConnectionError"}

\* execute_tool after the HTTP request: the exception raised for an outcome.
ResponseExc(outcome) ==
    CASE outcome = "200" -> "none"
      [] outcome = "status" -> "ValueError"
      [] outcome = "Timeout" -> "ConnectionError: timed out"
      [] outcome = "ConnectionError" -> "ConnectionError: cannot connect"

\* execute_tools, lines 264-273: the entry appended for a call.
SuccessResult(raw) == [error |-> "none", tool |-> "-", payload |-> sanitize_output(raw)]

ErrorResult(e, func_name) == [error |-> e, tool |-> func_name, payload |-> NoPayload]

NoResult == [error |-> "-", tool |-> "-", payload |-> NoPayload]

\* json.dumps of a result: the string that encodes it.
JsonDumps(result) == [json |-> result]

\* format_tool_results_for_llm: one role-tool message per result.
ToolMessage(result) ==
    [role |-> "tool", text |-> "-", msg |-> Message(Missing, "missing", << >>),
     content |-> JsonDumps(result)]

format_tool_results_for_llm(rs) == [k \in DOMAIN rs |-> ToolMessage(rs[k])]

(***************************************************************************)
(* LLMClient conversation helpers.                                         *)
(***************************************************************************)
PlainMessage(role, text) ==
    [role |-> role, text |-> text, msg |-> Message(Missing, "missing", << >>),
     content |-> JsonDumps(NoResult)]

\* The response message is appended as the backend sent it.
AssistantMessage(m) ==
    [role |-> "assistant", text |-> "-", msg |-> m, content |-> JsonDumps(NoResult)]

create_conversation(user_prompt) ==
    << PlainMessage("system", "system_prompt"), PlainMessage("user", user_prompt) >>

\* A variant of add_tool_results that leaves the assistant's message out.
add_tool_results_only(msgs, assistant_message, tool_results) == msgs \o tool_results

\* A variant of add_tool_results that starts the conversation over.
add_tool_results_fresh(msgs, assistant_message, tool_results) ==
    << AssistantMessage(assistant_message) >> \o tool_results

add_tool_results(msgs, assistant_message, tool_results) ==
    Append(msgs, AssistantMessage(assistant_message)) \o tool_results

(***************************************************************************)
(* The run: MCPAgent.run (mode "run") and chat (mode "chat").              *)
(* For chat the events are what it prints: print_step(n) is a STEP_START   *)
(* of step n, the printed answer a FINAL_ANSWER, the printed error an      *)
(* ERROR.                                                                  *)
(***************************************************************************)
VARIABLES
    mode,         \* "run" or "chat"
    pc,           \* where the run stands
    all_mcp_tools,\* discovery: the MCP tool dicts gathered so far
    tools,        \* the catalog: tools in Ollama format
    server_map,   \* the routing table: tool name -> server URL
    queried,      \* the backends discovery has asked, in order
    answered,     \* what each backend asked answered, in order
    messages,     \* the conversation
    message,      \* the first response's message
    tool_calls,   \* the parsed tool calls
    decision,     \* what parse_tool_calls returned
    results,      \* execute_tools: the results so far
    inflight,     \* execute_tool: the request posted and not yet answered
    dispatched,   \* every request posted to a tool backend, in order
    llm_calls,    \* every conversation and catalog sent to the reasoning backend
    replies,      \* how each call of the reasoning backend ended, in order
    events,       \* the events yielded (run) or printed (chat)
    error,        \* the exception that ended the run, "none" if none
    environ,      \* os.environ: the configuration variables
    config_instance, \* lib.config._config_instance
    config_calls,  \* the get_config / reset_config calls made, in order
    router_call,   \* ToolRouter alone: the last operation called and what it did
    duo,   \* two runs interleaved: the agent objects and each run's locals
    client,   \* MCPClient alone: its cache, its session and the operation under way
    served   \* file server: the request served last and what it touched

vars ==
    << mode, pc, all_mcp_tools, tools, server_map, queried, answered, messages, message,
       tool_calls, decision, results, inflight, dispatched, llm_calls, replies, events,
       error, environ, config_instance, config_calls, router_call, duo, client, served >>

Prompt == "prompt"

\* LLMClient.__init__, `timeout: int = 120`: MCPAgent builds LLMClient()
\* without arguments, and chat posts with timeout=self.timeout.
LLMClientTimeout == 120

\* A variant of the agent that gives the router the timeout of the
\* reasoning calls.
ToolRouterTimeoutOfReasoning == LLMClientTimeout

\* ToolRouter(self.server_map, timeout=10): run, line 196; chat, line 334;
\* execute_tool posts with timeout=self.timeout.
ToolRouterTimeout == 10

NoMessage == Message(Missing, "missing", << >>)

NoDecision == [exc |-> "-", none |-> TRUE, tool_calls |-> << >>, is_direct_answer |-> FALSE]

NoRequest ==
    [idx |-> 0, url |-> Url("-", ""), call |-> ToolCall("-", NoMembers), timeout |-> 0]

\* discover_all_tools: both backends asked in turn, the catalog converted.
discover_all_tools(file_reply, db_reply) ==
    LET file == TryBackend(<< >>, EmptyMap, get_tools(file_reply), MCPClientUrl(mcp_file_url))
        db == TryBackend(file.tools, file.map, get_tools(db_reply), MCPClientUrl(mcp_db_url))
    IN  [tools |-> [k \in DOMAIN db.tools |-> mcp_to_ollama_tool(db.tools[k])],
         server_map |-> db.map]

\* The two runs, and the MCPAgent objects they may be generators of.
Runs == {"A", "B"}

Agents == {"agent1", "agent2"}

\* MCPAgent.__init__: self.tools = [], self.server_map = {}.
NewAgent == [tools |-> << >>, server_map |-> EmptyMap]

\* The locals of a run that has not started, with what it was handed:
\* own is what its discovery returned, sent the catalogs of its reasoning
\* calls, routed the table of its ToolRouter.
NewRun ==
    [pc |-> "start", own |-> NewAgent, sent |-> << >>, routed |-> << >>, messages |-> << >>]

NoDuo == [object |-> [r \in Runs |-> "-"], self |-> [o \in Agents |-> NewAgent],
          run |-> [r \in Runs |-> NewRun]]

\* MCPClient._tools_cache: None, or the list get_tools stored.
NoCache == [set |-> FALSE, tools |-> << >>]

Cached(ts) == [set |-> TRUE, tools |-> ts]

\* The file server before it has served a request.
NoAnswer == [op |-> "none", path |-> [absolute |-> FALSE, parts |-> << >>],
             outcome |-> "none", touched |-> << >>]

\* MCPClient.__init__: no tool list cached, no session, nothing called yet.
NoClient ==
    [pc |-> "idle", op |-> "-", use_cache |-> FALSE, step |-> 0, transport |-> FALSE,
     session |-> "closed", cache |-> NoCache, before |-> NoCache, wire |-> << >>,
     pending |-> "none", exc |-> "-", returned |-> << >>]

\* ToolRouter alone: no operation called yet.
NoRouterCall ==
    [op |-> "-", name |-> "-", url |-> Url("-", ""), exc |-> "-", before |-> EmptyMap,
     tool_calls |-> << >>, passes |-> << >>, results |-> << >>]

Event(type, step) ==
    [type |-> type, step |-> step, content |-> Missing, tool |-> "-", result |-> NoResult]

FinalAnswer(c) == [Event("final_answer", 6) EXCEPT !.content = c]

ToolCallEvent(tc) == [Event("tool_call", 4) EXCEPT !.tool = tc.name]

\* A variant of the TOOL_RESULT event that leaves the result out.
ToolResultEventBlank(r) == Event("tool_result", 4)

\* result.get('tool', 'unknown')
ToolResultEvent(r) ==
    [Event("tool_result", 4) EXCEPT
        !.tool = IF r.error = "none" THEN "unknown" ELSE r.tool,
        !.result = r]

\* chat yields nothing but its steps, its answer and its error.
Emit(es) ==
    IF mode = "run" THEN es
    ELSE SelectSeq(es, LAMBDA e : e.type \in {"step_start", "final_answer", "error"})

Init ==
    /\ mode \in {"run", "chat"}
    /\ pc = "start"
    /\ all_mcp_tools = << >>
    /\ tools = << >>
    /\ server_map = EmptyMap
    /\ queried = << >>
    /\ answered = << >>
    /\ messages = << >>
    /\ message = NoMessage
    /\ tool_calls = << >>
    /\ decision = NoDecision
    /\ results = << >>
    /\ inflight = NoRequest
    /\ dispatched = << >>
    /\ llm_calls = << >>
    /\ replies = << >>
    /\ events = << >>
    /\ error = "none"
    /\ environ = EmptyEnv
    /\ config_instance = AppConfig(environ)
    /\ config_calls = << >>
    /\ router_call = NoRouterCall
    /\ duo = NoDuo
    /\ client = NoClient
    /\ served = NoAnswer

\* A variant of the except clauses that ends the run without an ERROR event.
FailWithoutEvent(e, evs) ==
    /\ pc' = "done"
    /\ error' = e
    /\ events' = events \o Emit(evs)

\* The except clauses of run / chat: the run ends with an ERROR event
\* (MCPError: str(e); any other exception: handle_error(e)).
Fail(e, evs) ==
    /\ pc' = "done"
    /\ error' = e
    /\ events' = events \o Emit(evs \o << Event("error", 0) >>)

\* Step 1 starts: STEP_START 1, then discover_all_tools() begins.
Start ==
    /\ pc = "start"
    /\ pc' = "discover_file"
    /\ events' = events \o Emit(<< Event("step_start", 1) >>)
    /\ UNCHANGED << served, client, duo, router_call, environ, config_instance, config_calls, answered, replies >>
    /\ UNCHANGED << mode, all_mcp_tools, tools, server_map, queried, messages, message,
                    tool_calls, decision, results, inflight, dispatched, llm_calls, error >>

\* _discover_all_tools_async, lines 260-272: the file server.
QueryFile ==
    /\ pc = "discover_file"
    /\ pc' = "discover_db"
    /\ queried' = Append(queried, "file")
    /\ \E reply \in FileReplies :
         LET file_tools == get_tools(reply)
             out == TryBackend(all_mcp_tools, server_map, file_tools, MCPClientUrl(mcp_file_url))
         IN  /\ answered' = Append(answered, file_tools)
             /\ all_mcp_tools' = out.tools
             /\ server_map' = out.map
    /\ UNCHANGED << served, client, duo, router_call, environ, config_instance, config_calls, replies >>
    /\ UNCHANGED << mode, tools, messages, message, tool_calls, decision, results,
                    inflight, dispatched, llm_calls, events, error >>

\* _discover_all_tools_async, lines 274-293: the database server, then the
\* conversion to the Ollama format and the return to the caller.
QueryDb ==
    /\ pc = "discover_db"
    /\ pc' = "discovered"
    /\ queried' = Append(queried, "db")
    /\ \E reply \in DbReplies :
         LET db_tools == get_tools(reply)
             out == TryBackend(all_mcp_tools, server_map, db_tools, MCPClientUrl(mcp_db_url))
         IN  /\ answered' = Append(answered, db_tools)
             /\ all_mcp_tools' = out.tools
             /\ server_map' = out.map
    /\ tools' = [k \in DOMAIN all_mcp_tools' |-> mcp_to_ollama_tool(all_mcp_tools'[k])]
    /\ UNCHANGED << served, client, duo, router_call, environ, config_instance, config_calls, replies >>
    /\ UNCHANGED << mode, messages, message, tool_calls, decision, results,
                    inflight, dispatched, llm_calls, events, error >>

\* A variant of the test that never finds the catalog empty.
NoToolsAvailableNever(ts) == FALSE

\* `if not self.tools:` (run, line 153) and `if not tools:` (chat, line 290).
NoToolsAvailable(ts) == ts = << >>

\* run, lines 153-172: no tools ends the run; otherwise step 2 starts and
\* the first reasoning call is sent.
CheckTools ==
    /\ pc = "discovered"
    /\ IF NoToolsAvailable(tools)
       THEN /\ pc' = "done"
            /\ error' = "NoTools"
            /\ events' = events \o Emit(<< Event("error", 1) >>)
            /\ UNCHANGED << messages, llm_calls >>
       ELSE /\ pc' = "reasoning1"
            /\ events' = events \o Emit(<< Event("success", 1), Event("step_start", 2),
                                           Event("info", 2) >>)
            /\ messages' = create_conversation(Prompt)
            /\ llm_calls' = Append(llm_calls, [messages |-> messages', tools |-> tools,
                                           timeout |-> LLMClientTimeout])
            /\ UNCHANGED error
    /\ UNCHANGED << served, client, duo, router_call, environ, config_instance, config_calls, answered, replies >>
    /\ UNCHANGED << mode, all_mcp_tools, tools, server_map, queried, message, tool_calls,
                    decision, results, inflight, dispatched >>

\* How a call of the reasoning backend ends: a failure, or a response
\* ("200") carrying a message.
Reply(outcome, m) == [outcome |-> outcome, msg |-> m]

FirstReplies ==
    { Reply(f, NoMessage) : f \in LLMFailures } \cup { Reply("200", m) : m \in FirstResponses }

SecondReplies ==
    { Reply(f, NoMessage) : f \in LLMFailures } \cup { Reply("200", m) : m \in SecondResponses }

\* A variant of chat that returns the body of a non-success response.
LLMClientChatSwallows(outcome) ==
    CASE outcome = "Timeout" -> "ConnectionError"
      [] outcome = "ConnectionError" -> "ConnectionError"
      [] OTHER -> "none"

\* LLMClient.chat, lines 174-205: the exception it raises for an outcome,
\* "none" when it returns response.json().
LLMClientChat(outcome) ==
    CASE outcome = "Timeout" -> "ConnectionError"
      [] outcome = "ConnectionError" -> "ConnectionError"
      [] outcome = "HTTPError" -> "ValueError"
      [] OTHER -> "none"

\* A variant of the wrapping that lets the exception of chat through.
LLMErrorUnwrapped(failure) == LLMClientChat(failure)

\* LLMClient.chat fails: run, lines 173-174 and 249-252, wraps a
\* ConnectionError into LLMConnectionError.
LLMError(failure) ==
    IF LLMClientChat(failure) = "ConnectionError" THEN "LLMConnectionError"
    ELSE LLMClientChat(failure)

\* The first reasoning call ends: run, lines 172-182.
Reason1 ==
    /\ pc = "reasoning1"
    /\ \E reply \in FirstReplies :
         /\ replies' = Append(replies, reply)
         /\ IF LLMClientChat(reply.outcome) # "none"
            THEN /\ Fail(LLMError(reply.outcome), << >>)
                 /\ UNCHANGED message
            ELSE /\ message' = reply.msg
                 /\ pc' = "parsing"
                 /\ events' = events \o Emit(<< Event("success", 2), Event("step_start", 3) >>)
                 /\ UNCHANGED error
    /\ UNCHANGED << served, client, duo, router_call, environ, config_instance, config_calls, answered >>
    /\ UNCHANGED << mode, all_mcp_tools, tools, server_map, queried, messages, tool_calls,
                    decision, results, inflight, dispatched, llm_calls >>

\* message.get("content", ""): the empty text when the key is missing.
GetContent(m) == IF m.content.kind = "missing" THEN Text(<< >>) ELSE m.content

\* A variant of the branch that is taken whatever was parsed.
IsToolBranchAlways(d) == TRUE

\* The branch `if tool_calls:` of run and chat.
IsToolBranch(d) == ~d.none /\ d.tool_calls # << >>

\* A variant of the direct branch that delivers the stripped content.
DirectAnswerStripped(md, m) ==
    IF md = "chat" /\ m.content.kind = "missing"
    THEN [exc |-> "KeyError", events |-> << Event("step_start", 6) >>]
    ELSE [exc |-> "none",
          events |-> << Event(IF md = "run" THEN "info" ELSE "step_start",
                              IF md = "run" THEN 3 ELSE 6),
                        FinalAnswer(Text(Strip(m.content.text))) >>]

\* What the direct branch delivers: run, lines 244-247; chat, lines 375-378
\* (message['content'] raises KeyError when the key is missing).
DirectAnswer(md, m) ==
    IF md = "run"
    THEN [exc |-> "none", events |-> << Event("info", 3), FinalAnswer(GetContent(m)) >>]
    ELSE IF m.content.kind = "missing"
    THEN [exc |-> "KeyError", events |-> << Event("step_start", 6) >>]
    ELSE [exc |-> "none", events |-> << Event("step_start", 6), FinalAnswer(m.content) >>]

\* Step 3: parse_tool_calls and the branch on its result; run, lines 184-204
\* and 244-247.
Decide ==
    /\ pc = "parsing"
    /\ decision' = parse_tool_calls(message)
    /\ IF decision'.exc # "none"
       THEN /\ Fail(decision'.exc, << >>)
            /\ UNCHANGED tool_calls
       ELSE IF IsToolBranch(decision')
       THEN /\ tool_calls' = decision'.tool_calls
            /\ pc' = "executing"
            /\ events' = events \o Emit(
                    << Event("info", 3), Event("step_start", 4) >>
                    \o [k \in DOMAIN tool_calls' |-> ToolCallEvent(tool_calls'[k])])
            /\ UNCHANGED error
       ELSE LET out == DirectAnswer(mode, message)
            IN  /\ UNCHANGED tool_calls
                /\ IF out.exc # "none"
                   THEN Fail(out.exc, out.events)
                   ELSE /\ pc' = "done"
                        /\ events' = events \o out.events
                        /\ UNCHANGED error
    /\ UNCHANGED << served, client, duo, router_call, environ, config_instance, config_calls, answered, replies >>
    /\ UNCHANGED << mode, all_mcp_tools, tools, server_map, queried, messages, message,
                    results, inflight, dispatched, llm_calls >>

\* A variant of the except clause that records nothing for the failed call.
CaptureNothing(rs, e, func_name) == rs

\* A variant of the except clause in which a failed call starts the batch
\* again.
CaptureRestarting(rs, e, func_name) == << >>

\* execute_tools, lines 264-273: an exception of execute_tool becomes the
\* result of that call.
Capture(rs, e, func_name) == Append(rs, ErrorResult(e, func_name))

\* A variant in which the loop goes on while a request is unanswered.
IdleAlways(req) == TRUE

\* requests.post (execute_tool, lines 174-181) blocks: the loop takes the
\* next call only when no request is waiting for its answer.
Idle(req) == req = NoRequest

\* A variant of the loop that takes a failed call again.
NextCallRetrying(rs) == Len(SelectSeq(rs, LAMBDA r : r.error = "none")) + 1

\* `for tool_call in tool_calls:` (execute_tools, line 250): every pass
\* appends one result, so the next call is the one after the results.
NextCall(rs) == Len(rs) + 1

\* execute_tools takes the next call of the batch: lines 250-261 normalise
\* its arguments (raw_args.items() raises AttributeError outside the try
\* when the arguments are no dict), then execute_tool runs up to the request.
ExecNext ==
    /\ pc = "executing"
    /\ Idle(inflight)
    /\ Len(results) < Len(tool_calls)
    /\ LET tool_call == tool_calls[NextCall(results)]
           func_name == tool_call.name
           raw_args == tool_call.arguments
       IN  IF ~IsDict(raw_args)
           THEN /\ Fail("ToolExecutionError", << >>)
                /\ UNCHANGED << results, inflight, dispatched >>
           ELSE LET req == execute_tool(server_map, func_name, NormalizeArgs(raw_args.m))
                IN  IF req.exc # "none"
                    THEN /\ results' = Capture(results, req.exc, func_name)
                         /\ UNCHANGED << pc, inflight, dispatched, events, error >>
                    ELSE /\ inflight' = [idx |-> NextCall(results), url |-> req.url,
                                         call |-> req.call,
                                         timeout |-> ToolRouterTimeout]
                         /\ dispatched' = Append(dispatched, inflight')
                         /\ UNCHANGED << pc, results, events, error >>
    /\ UNCHANGED << served, client, duo, router_call, environ, config_instance, config_calls, answered, replies >>
    /\ UNCHANGED << mode, all_mcp_tools, tools, server_map, queried, messages, message,
                    tool_calls, decision, llm_calls >>

\* The backend answers the posted request: execute_tool, lines 179-204, and
\* execute_tools, lines 266-273.
ExecReply ==
    /\ pc = "executing"
    /\ inflight # NoRequest
    /\ \E outcome \in Outcomes :
         results' =
            IF ResponseExc(outcome) = "none"
            THEN Append(results, SuccessResult([shape |-> "string", served |-> inflight.call]))
            ELSE Capture(results, ResponseExc(outcome), inflight.call.name)
    /\ inflight' = NoRequest
    /\ UNCHANGED << served, client, duo, router_call, environ, config_instance, config_calls, answered, replies >>
    /\ UNCHANGED << mode, pc, all_mcp_tools, tools, server_map, queried, messages, message,
                    tool_calls, decision, dispatched, llm_calls, events, error >>

\* execute_tools returns: run, lines 213-233; the second reasoning call is sent.
ExecDone ==
    /\ pc = "executing"
    /\ inflight = NoRequest
    /\ Len(results) = Len(tool_calls)
    /\ pc' = "reasoning2"
    /\ events' = events \o Emit(
            [k \in DOMAIN results |-> ToolResultEvent(results[k])]
            \o << Event("step_start", 5), Event("info", 5) >>)
    /\ messages' = add_tool_results(messages, message, format_tool_results_for_llm(results))
    /\ llm_calls' = Append(llm_calls, [messages |-> messages', tools |-> tools,
                                           timeout |-> LLMClientTimeout])
    /\ UNCHANGED << served, client, duo, router_call, environ, config_instance, config_calls, answered, replies >>
    /\ UNCHANGED << mode, all_mcp_tools, tools, server_map, queried, message, tool_calls,
                    decision, results, inflight, dispatched, error >>

\* Step 6: run, line 242, yields the answer; chat, lines 372-373, prints
\* the step and the answer.
SynthesisAnswer(md, m) ==
    IF md = "run" THEN << FinalAnswer(m.content) >>
    ELSE << Event("step_start", 6), FinalAnswer(m.content) >>

\* The second reasoning call ends: run, lines 233-242; chat, lines 363-373.
\* final_data["message"]["content"] raises KeyError when the key is missing.
Reason2 ==
    /\ pc = "reasoning2"
    /\ \E reply \in SecondReplies :
         /\ replies' = Append(replies, reply)
         /\ IF LLMClientChat(reply.outcome) # "none"
            THEN Fail(LLMError(reply.outcome), << >>)
            ELSE IF reply.msg.content.kind = "missing"
            THEN Fail("KeyError", << >>)
            ELSE /\ pc' = "done"
                 /\ events' = events \o SynthesisAnswer(mode, reply.msg)
                 /\ UNCHANGED error
    /\ UNCHANGED << served, client, duo, router_call, environ, config_instance, config_calls, answered >>
    /\ UNCHANGED << mode, all_mcp_tools, tools, server_map, queried, messages, message,
                    tool_calls, decision, results, inflight, dispatched, llm_calls >>

Next ==
    \/ Start
    \/ QueryFile
    \/ QueryDb
    \/ CheckTools
    \/ Reason1
    \/ Decide
    \/ ExecNext
    \/ ExecReply
    \/ ExecDone
    \/ Reason2

Spec == Init /\ [][Next]_vars

\* MCPAgent.run as it is scheduled: one synchronous generator, so a step
\* that can be taken is taken; every call of a backend is answered, times
\* out or errors (Reason1, ExecReply and Reason2 draw the outcome).
InitRun == Init /\ mode = "run"

SpecRun == InitRun /\ [][Next]_vars /\ WF_vars(Next)

(***************************************************************************)
(* parse_tool_calls alone, applied to every message.                       *)
(***************************************************************************)
InitParse ==
    /\ mode = "parse"
    /\ pc = "parse_input"
    /\ message \in Messages
    /\ all_mcp_tools = << >>
    /\ tools = << >>
    /\ server_map = EmptyMap
    /\ queried = << >>
    /\ answered = << >>
    /\ messages = << >>
    /\ tool_calls = << >>
    /\ decision = NoDecision
    /\ results = << >>
    /\ inflight = NoRequest
    /\ dispatched = << >>
    /\ llm_calls = << >>
    /\ replies = << >>
    /\ events = << >>
    /\ error = "none"
    /\ environ = EmptyEnv
    /\ config_instance = AppConfig(environ)
    /\ config_calls = << >>
    /\ router_call = NoRouterCall
    /\ duo = NoDuo
    /\ client = NoClient
    /\ served = NoAnswer

ParseStep ==
    /\ pc = "parse_input"
    /\ decision' = parse_tool_calls(message)
    /\ pc' = "parsed"
    /\ UNCHANGED << served, client, duo, router_call, environ, config_instance, config_calls, answered, replies >>
    /\ UNCHANGED << mode, all_mcp_tools, tools, server_map, queried, messages, message,
                    tool_calls, results, inflight, dispatched, llm_calls, events, error >>

NextParse == ParseStep

SpecParse == InitParse /\ [][NextParse]_vars

(***************************************************************************)
(* The configuration singleton alone: get_config and reset_config called   *)
(* in any order, the environment changing in between.                      *)
(***************************************************************************)
Environments ==
    UNION { { e \in [D -> OllamaUrls \cup ModelNames \cup McpFileUrls \cup McpDbUrls] :
                \A k \in D : e[k] \in EnvValues(k) } :
            D \in SUBSET EnvKeys }

ConfigCall(op, exc, returned, loaded) ==
    [op |-> op, exc |-> exc, returned |-> returned, loaded |-> loaded]

InitConfig ==
    /\ mode = "config"
    /\ pc = "startup"
    /\ environ \in Environments
    /\ config_instance = NoConfig
    /\ config_calls = << >>
    /\ router_call = NoRouterCall
    /\ duo = NoDuo
    /\ client = NoClient
    /\ served = NoAnswer
    /\ all_mcp_tools = << >>
    /\ tools = << >>
    /\ server_map = EmptyMap
    /\ queried = << >>
    /\ answered = << >>
    /\ messages = << >>
    /\ message = NoMessage
    /\ tool_calls = << >>
    /\ decision = NoDecision
    /\ results = << >>
    /\ inflight = NoRequest
    /\ dispatched = << >>
    /\ llm_calls = << >>
    /\ replies = << >>
    /\ events = << >>
    /\ error = "none"

\* os.environ[key] = value
SetEnv ==
    /\ \E key \in EnvKeys : \E value \in EnvValues(key) :
         environ' = [k \in DOMAIN environ \cup {key} |-> IF k = key THEN value ELSE environ[k]]
    /\ UNCHANGED << served, client, duo, router_call, config_instance, config_calls >>
    /\ UNCHANGED << mode, pc, all_mcp_tools, tools, server_map, queried, answered, messages,
                    message, tool_calls, decision, results, inflight, dispatched, llm_calls,
                    replies, events, error >>

GetConfig ==
    /\ Len(config_calls) < MaxCalls
    /\ LET out == get_config(config_instance, environ)
       IN  /\ config_instance' = out.instance
           /\ config_calls' =
                 Append(config_calls, ConfigCall("get_config", out.exc, out.returned, out.instance))
    /\ UNCHANGED << served, client, duo, router_call, mode, pc, environ, all_mcp_tools, tools, server_map, queried, answered,
                    messages, message, tool_calls, decision, results, inflight, dispatched,
                    llm_calls, replies, events, error >>

ResetConfig ==
    /\ Len(config_calls) < MaxCalls
    /\ config_instance' = reset_config(config_instance)
    /\ config_calls' = Append(config_calls, ConfigCall("reset_config", "none", NoConfig, NoConfig))
    /\ UNCHANGED << served, client, duo, router_call, mode, pc, environ, all_mcp_tools, tools, server_map, queried, answered,
                    messages, message, tool_calls, decision, results, inflight, dispatched,
                    llm_calls, replies, events, error >>

NextConfig ==
    \/ SetEnv
    \/ GetConfig
    \/ ResetConfig

SpecConfig == InitConfig /\ [][NextConfig]_vars

(***************************************************************************)
(* The ToolRouter alone: register_tool, unregister_tool, route,            *)
(* execute_tool and execute_tools called in any order on one router.       *)
(***************************************************************************)
\* register_tool: self.server_map[tool_name] = server_url.
register_tool(map, tool_name, server_url) ==
    [n \in DOMAIN map \cup {tool_name} |-> IF n = tool_name THEN server_url ELSE map[n]]

\* A variant of unregister_tool that raises for a name it does not know.
unregister_tool_strict(map, tool_name) ==
    IF tool_name \in DOMAIN map
    THEN [exc |-> "none", map |-> [n \in DOMAIN map \ {tool_name} |-> map[n]]]
    ELSE [exc |-> "KeyError", map |-> map]

\* unregister_tool: `if tool_name in self.server_map: del ...`, else an
\* error is printed and nothing is raised.
unregister_tool(map, tool_name) ==
    IF tool_name \in DOMAIN map
    THEN [exc |-> "none", map |-> [n \in DOMAIN map \ {tool_name} |-> map[n]]]
    ELSE [exc |-> "none", map |-> map]

\* The URL a name is registered with when nothing else is known.
DefaultUrl == MCPClientUrl(mcp_file_url)

\* A variant of route that registers a name it does not find.
ServerMapAfterRouteCaching(map, tool_name) ==
    IF tool_name \in DOMAIN map THEN map ELSE register_tool(map, tool_name, DefaultUrl)

\* self.server_map after route: route tests and reads it, assigns nothing.
ServerMapAfterRoute(map, tool_name) == map

\* execute_tool as a whole, the backend answering a posted request with
\* outcome: what it was called with, whether and where it posted, the
\* exception it raised or the result it returned, and the table afterwards.
ToolRun(map, tool_name, arguments, outcome) ==
    LET req == execute_tool(map, tool_name, arguments)
        exc == IF req.exc # "none" THEN req.exc ELSE ResponseExc(outcome)
    IN  [name |-> tool_name,
         arguments |-> arguments,
         posted |-> req.exc = "none",
         url |-> req.url,
         call |-> req.call,
         exc |-> exc,
         result |-> IF exc = "none"
                    THEN SuccessResult([shape |-> "string", served |-> req.call])
                    ELSE NoResult,
         map |-> IF validate_tool_arguments(tool_name, arguments) THEN map
                 ELSE ServerMapAfterRoute(map, tool_name)]

\* execute_tools: the loop over the batch, outcomes[k] being the answer of
\* the backend to call k if it is posted.  acc gathers the passes made, the
\* results appended, the table, and the exception that left the loop.
RECURSIVE execute_tools(_, _, _)
execute_tools(acc, calls, outcomes) ==
    IF calls = << >> THEN acc
    ELSE LET tool_call == Head(calls)
             func_name == tool_call.name
             raw_args == tool_call.arguments
         IN  IF ~IsDict(raw_args)
             THEN [acc EXCEPT !.exc = "AttributeError"]
             ELSE LET run == ToolRun(acc.map, func_name, NormalizeArgs(raw_args.m),
                                     Head(outcomes))
                  IN  execute_tools(
                         [acc EXCEPT
                             !.passes = Append(@, run),
                             !.results = IF run.exc = "none" THEN Append(@, run.result)
                                         ELSE Capture(@, run.exc, func_name),
                             !.map = run.map],
                         Tail(calls), Tail(outcomes))

\* The names the router is asked about: a tool of each backend and one no
\* backend lists.
RouterNames == {"read_file", "query_db", "weather"}

RouterUrls == { MCPClientUrl(mcp_file_url), MCPClientUrl(mcp_db_url) }

DoublyWrapped(b) == [w |-> 2, b |-> b]

PathTwiceWrapped ==
    [k \in {"path", "encoding"} |->
        IF k = "path" THEN DoublyWrapped("a.txt") ELSE Scalar("utf-8")]

SqlDropWrapped == [k \in {"sql"} |-> Wrapped("DROP")]

\* The requests the router is given: plain, wrapped once and twice, SQL to
\* repair, wrapped SQL failing validation, and arguments that are no object.
RouterRequests ==
    { ToolCall("read_file", JMap(PathA)),
      ToolCall("read_file", JMap(PathTwiceWrapped)),
      ToolCall("query_db", JMap(SqlUnquoted)),
      ToolCall("query_db", JMap(SqlDropWrapped)),
      ToolCall("weather", JMap(PathWrapped)),
      ToolCall("read_file", JStr) }

RouterBatches == { << a >> : a \in RouterRequests } \cup { << a, b >> : a, b \in RouterRequests }

RouterOutcomes == {"200", "Timeout"}

\* The tables discovery hands to ToolRouter.__init__.
RouterMaps ==
    { EmptyMap,
      AddToServerMap(AddToServerMap(EmptyMap, << "read_file" >>, MCPClientUrl(mcp_file_url)),
                     << "query_db" >>, MCPClientUrl(mcp_db_url)) }

RouterCall(op, name, url, exc) ==
    [op |-> op, name |-> name, url |-> url, exc |-> exc, before |-> server_map,
     tool_calls |-> << >>, passes |-> << >>, results |-> << >>]

InitRouter ==
    /\ mode = "router"
    /\ pc = "router"
    /\ server_map \in RouterMaps
    /\ router_call = NoRouterCall
    /\ all_mcp_tools = << >>
    /\ tools = << >>
    /\ queried = << >>
    /\ answered = << >>
    /\ messages = << >>
    /\ message = NoMessage
    /\ tool_calls = << >>
    /\ decision = NoDecision
    /\ results = << >>
    /\ inflight = NoRequest
    /\ dispatched = << >>
    /\ llm_calls = << >>
    /\ replies = << >>
    /\ events = << >>
    /\ error = "none"
    /\ environ = EmptyEnv
    /\ config_instance = AppConfig(environ)
    /\ config_calls = << >>
    /\ duo = NoDuo
    /\ client = NoClient
    /\ served = NoAnswer

RegisterTool ==
    /\ \E tool_name \in RouterNames : \E server_url \in RouterUrls :
         /\ server_map' = register_tool(server_map, tool_name, server_url)
         /\ router_call' = RouterCall("register_tool", tool_name, server_url, "none")
    /\ UNCHANGED << mode, pc, all_mcp_tools, tools, queried, answered, messages, message,
                    tool_calls, decision, results, inflight, dispatched, llm_calls, replies,
                    events, error, environ, config_instance, config_calls, duo, client,
                    served >>

UnregisterTool ==
    /\ \E tool_name \in RouterNames :
         LET out == unregister_tool(server_map, tool_name)
         IN  /\ server_map' = out.map
             /\ router_call' = RouterCall("unregister_tool", tool_name, Url("-", ""), out.exc)
    /\ UNCHANGED << mode, pc, all_mcp_tools, tools, queried, answered, messages, message,
                    tool_calls, decision, results, inflight, dispatched, llm_calls, replies,
                    events, error, environ, config_instance, config_calls, duo, client,
                    served >>

Route ==
    /\ \E tool_name \in RouterNames :
         LET out == route(server_map, tool_name)
         IN  /\ server_map' = ServerMapAfterRoute(server_map, tool_name)
             /\ router_call' = RouterCall("route", tool_name, out.url, out.exc)
    /\ UNCHANGED << mode, pc, all_mcp_tools, tools, queried, answered, messages, message,
                    tool_calls, decision, results, inflight, dispatched, llm_calls, replies,
                    events, error, environ, config_instance, config_calls, duo, client,
                    served >>

ExecuteTool ==
    /\ \E tool_call \in { r \in RouterRequests : IsDict(r.arguments) } :
       \E outcome \in RouterOutcomes :
         LET run == ToolRun(server_map, tool_call.name, tool_call.arguments.m, outcome)
         IN  /\ server_map' = run.map
             /\ router_call' =
                  [RouterCall("execute_tool", tool_call.name, run.url, run.exc) EXCEPT
                      !.tool_calls = << tool_call >>,
                      !.passes = << run >>,
                      !.results = IF run.exc = "none" THEN << run.result >> ELSE << >>]
    /\ UNCHANGED << mode, pc, all_mcp_tools, tools, queried, answered, messages, message,
                    tool_calls, decision, results, inflight, dispatched, llm_calls, replies,
                    events, error, environ, config_instance, config_calls, duo, client,
                    served >>

ExecuteTools ==
    /\ \E batch \in RouterBatches : \E outcomes \in [DOMAIN batch -> RouterOutcomes] :
         LET out == execute_tools([exc |-> "none", passes |-> << >>, results |-> << >>,
                                   map |-> server_map], batch, outcomes)
         IN  /\ server_map' = out.map
             /\ router_call' =
                  [RouterCall("execute_tools", "-", Url("-", ""), out.exc) EXCEPT
                      !.tool_calls = batch,
                      !.passes = out.passes,
                      !.results = out.results]
    /\ UNCHANGED << mode, pc, all_mcp_tools, tools, queried, answered, messages, message,
                    tool_calls, decision, results, inflight, dispatched, llm_calls, replies,
                    events, error, environ, config_instance, config_calls, duo, client,
                    served >>

NextRouter ==
    \/ RegisterTool
    \/ UnregisterTool
    \/ Route
    \/ ExecuteTool
    \/ ExecuteTools

SpecRouter == InitRouter /\ [][NextRouter]_vars

(***************************************************************************)
(* Two MCPAgent.run generators advanced in any interleaving, on the same   *)
(* MCPAgent object or on two.  A step is the code between two yields.      *)
(***************************************************************************)
PromptOf(r) == IF r = "A" THEN "prompt A" ELSE "prompt B"

\* What a step of a run leaves alone: everything but the two runs.
RunFrame ==
    UNCHANGED << mode, pc, all_mcp_tools, tools, server_map, queried, answered, messages,
                 message, tool_calls, decision, results, inflight, dispatched, llm_calls,
                 replies, events, error, environ, config_instance, config_calls,
                 router_call, client, served >>

InitTwoRuns ==
    /\ mode = "two_runs"
    /\ pc = "two_runs"
    /\ \E o \in Agents :
         duo = [NoDuo EXCEPT !.object = [r \in Runs |-> IF r = "A" THEN "agent1" ELSE o]]
    /\ router_call = NoRouterCall
    /\ all_mcp_tools = << >>
    /\ tools = << >>
    /\ server_map = EmptyMap
    /\ queried = << >>
    /\ answered = << >>
    /\ messages = << >>
    /\ message = NoMessage
    /\ tool_calls = << >>
    /\ decision = NoDecision
    /\ results = << >>
    /\ inflight = NoRequest
    /\ dispatched = << >>
    /\ llm_calls = << >>
    /\ replies = << >>
    /\ events = << >>
    /\ error = "none"
    /\ environ = EmptyEnv
    /\ config_instance = AppConfig(environ)
    /\ config_calls = << >>
    /\ client = NoClient
    /\ served = NoAnswer

\* run, lines 151-160: discovery stores its result on the agent object;
\* an empty catalog ends the run.
RunDiscover(r) ==
    /\ duo.run[r].pc = "start"
    /\ \E file_reply \in FileReplies : \E db_reply \in DbReplies :
         LET out == discover_all_tools(file_reply, db_reply)
         IN  duo' = [duo EXCEPT
                       !.self[duo.object[r]] = out,
                       !.run[r].own = out,
                       !.run[r].pc = IF NoToolsAvailable(out.tools) THEN "done"
                                     ELSE "discovered"]
    /\ RunFrame

\* run, lines 169-204: the first reasoning call is sent with self.tools;
\* the answer is direct, or asks for tools.
RunReason1(r) ==
    /\ duo.run[r].pc = "discovered"
    /\ \E direct \in BOOLEAN :
         duo' = [duo EXCEPT
                   !.run[r].messages = create_conversation(PromptOf(r)),
                   !.run[r].sent = Append(@, duo.self[duo.object[r]].tools),
                   !.run[r].pc = IF direct THEN "done" ELSE "tools"]
    /\ RunFrame

\* run, lines 196-217: ToolRouter(self.server_map) and the batch.
RunExecute(r) ==
    /\ duo.run[r].pc = "tools"
    /\ duo' = [duo EXCEPT
                 !.run[r].routed = << duo.self[duo.object[r]].server_map >>,
                 !.run[r].pc = "executed"]
    /\ RunFrame

\* run, lines 219-242: the conversation is extended and the second
\* reasoning call is sent with self.tools.
RunReason2(r) ==
    /\ duo.run[r].pc = "executed"
    /\ duo' = [duo EXCEPT
                 !.run[r].messages =
                     add_tool_results(@, NoMessage,
                         format_tool_results_for_llm(<< ErrorResult(PromptOf(r), "read_file") >>)),
                 !.run[r].sent = Append(@, duo.self[duo.object[r]].tools),
                 !.run[r].pc = "done"]
    /\ RunFrame

NextTwoRuns ==
    \E r \in Runs :
        \/ RunDiscover(r)
        \/ RunReason1(r)
        \/ RunExecute(r)
        \/ RunReason2(r)

SpecTwoRuns == InitTwoRuns /\ [][NextTwoRuns]_vars

(***************************************************************************)
(* The MCPClient alone: get_tools, call_tool and clear_cache called one    *)
(* after the other on one client, and the integration test                 *)
(* test_server_async.  An operation that contacts the server opens the     *)
(* transport, enters a session and runs its body; wire lists what was sent *)
(* to the server during the operation.                                     *)
(***************************************************************************)
\* A variant of the test that returns the cache whatever use_cache says.
CacheHitIgnoringFlag(use_cache, cache) == cache.set

\* get_tools, line 106: `if use_cache and self._tools_cache is not None`.
CacheHit(use_cache, cache) == use_cache /\ cache.set

\* A variant of the body that sends its request without the handshake.
SessionBodyNoHandshake(op) ==
    CASE op = "get_tools" -> << "list_tools" >>
      [] op = "call_tool" -> << "call_tool" >>
      [] OTHER -> << "list_tools", "call_tool" >>

\* What is awaited inside `async with ClientSession(...) as session`:
\* get_tools, lines 112-118; call_tool, lines 161-166; the test, lines 44-74.
SessionBody(op) ==
    CASE op = "get_tools" -> << "initialize", "list_tools" >>
      [] op = "call_tool" -> << "initialize", "call_tool" >>
      [] OTHER -> << "initialize", "list_tools", "call_tool" >>

\* A variant of get_tools that caches an empty list when the listing fails.
CacheAfterCachingFailures(cache, ok, listed) ==
    IF ok THEN Cached(listed) ELSE Cached(<< >>)

\* get_tools, line 133: self._tools_cache = tools, reached only when
\* list_tools answered.
CacheAfter(cache, ok, listed) == IF ok THEN Cached(listed) ELSE cache

\* What the operation raises for an exception of its body: get_tools,
\* lines 137-143, raises ConnectionError; call_tool, lines 187-189,
\* re-raises; the test prints it.
RaisedBy(op, e) == IF op = "get_tools" THEN "ConnectionError" ELSE e

\* What a server may list.
ClientListings == FileListings \cup { << >> }

\* The call of an operation that contacts the server.
Begin(op, use_cache) ==
    [client EXCEPT !.pc = "connect", !.op = op, !.use_cache = use_cache, !.step = 0,
                   !.before = client.cache, !.wire = << >>, !.pending = "none",
                   !.exc = "-", !.returned = << >>]

ClientFrame ==
    UNCHANGED << mode, pc, all_mcp_tools, tools, server_map, queried, answered, messages,
                 message, tool_calls, decision, results, inflight, dispatched, llm_calls,
                 replies, events, error, environ, config_instance, config_calls,
                 router_call, duo, served >>

InitClient ==
    /\ mode = "client"
    /\ pc = "client"
    /\ client = NoClient
    /\ router_call = NoRouterCall
    /\ duo = NoDuo
    /\ all_mcp_tools = << >>
    /\ tools = << >>
    /\ server_map = EmptyMap
    /\ queried = << >>
    /\ answered = << >>
    /\ messages = << >>
    /\ message = NoMessage
    /\ tool_calls = << >>
    /\ decision = NoDecision
    /\ results = << >>
    /\ inflight = NoRequest
    /\ dispatched = << >>
    /\ llm_calls = << >>
    /\ replies = << >>
    /\ events = << >>
    /\ error = "none"
    /\ environ = EmptyEnv
    /\ config_instance = AppConfig(environ)
    /\ config_calls = << >>
    /\ served = NoAnswer

\* get_tools(use_cache) is called: lines 106-109.
GetTools ==
    /\ client.pc = "idle"
    /\ \E use_cache \in BOOLEAN :
         client' =
            IF CacheHit(use_cache, client.cache)
            THEN [client EXCEPT !.op = "get_tools", !.use_cache = use_cache, !.step = 0,
                                !.before = client.cache, !.wire = << >>,
                                !.pending = "none", !.exc = "none",
                                !.returned = client.cache.tools]
            ELSE Begin("get_tools", use_cache)
    /\ ClientFrame

\* call_tool(name, arguments) is called.
CallTool ==
    /\ client.pc = "idle"
    /\ client' = Begin("call_tool", FALSE)
    /\ ClientFrame

\* test_server_async is run.
TestServer ==
    /\ client.pc = "idle"
    /\ client' = Begin("test", FALSE)
    /\ ClientFrame

\* clear_cache(): self._tools_cache = None.
ClearCache ==
    /\ client.pc = "idle"
    /\ client' = [client EXCEPT !.op = "clear_cache", !.use_cache = FALSE, !.step = 0,
                                !.before = client.cache, !.wire = << >>,
                                !.pending = "none", !.exc = "none", !.returned = << >>,
                                !.cache = NoCache]
    /\ ClientFrame

\* `async with streamablehttp_client(self.server_url)`: the transport opens,
\* or entering it raises.
Connect ==
    /\ client.pc = "connect"
    /\ \E ok \in BOOLEAN :
         client' =
            IF ok
            THEN [client EXCEPT !.pc = "enter", !.transport = TRUE,
                                !.wire = Append(@, "connect")]
            ELSE [client EXCEPT !.pc = "exit", !.pending = "OSError"]
    /\ ClientFrame

\* `async with ClientSession(read, write) as session`.
EnterSession ==
    /\ client.pc = "enter"
    /\ client' = [client EXCEPT !.pc = "body", !.session = "open", !.step = 1]
    /\ ClientFrame

\* The next await of the body: it is answered, or it raises and the body
\* is left.  The answer of list_tools in get_tools is converted and cached.
BodyStep ==
    /\ client.pc = "body"
    /\ client.step \in DOMAIN SessionBody(client.op)
    /\ LET request == SessionBody(client.op)[client.step]
           last == client.step = Len(SessionBody(client.op))
       IN  \E ok \in BOOLEAN : \E listed \in ClientListings :
             client' =
                [client EXCEPT
                    !.wire = Append(@, request),
                    !.session = IF request = "initialize" /\ ok THEN "initialized" ELSE @,
                    !.pending = IF ok THEN "none" ELSE "McpError",
                    !.pc = IF ok /\ ~last THEN "body" ELSE "exit",
                    !.step = IF ok /\ ~last THEN @ + 1 ELSE @,
                    !.returned = IF ok /\ request = "list_tools" /\ client.op = "get_tools"
                                 THEN listed ELSE @,
                    !.cache = IF request = "list_tools" /\ client.op = "get_tools"
                              THEN CacheAfter(@, ok, listed) ELSE @]
    /\ ClientFrame

\* The `async with` blocks are left, by return or by exception: session and
\* transport are closed, then the operation returns or raises.
Exit ==
    /\ client.pc = "exit"
    /\ client' = [client EXCEPT
                    !.pc = "idle", !.session = "closed", !.transport = FALSE,
                    !.exc = IF client.pending = "none" THEN "none"
                            ELSE RaisedBy(client.op, client.pending),
                    !.pending = "none",
                    !.returned = IF client.pending = "none" THEN @ ELSE << >>]
    /\ ClientFrame

NextClient ==
    \/ GetTools
    \/ CallTool
    \/ TestServer
    \/ ClearCache
    \/ Connect
    \/ EnterSession
    \/ BodyStep
    \/ Exit

SpecClient == InitClient /\ [][NextClient]_vars

(***************************************************************************)
(* The file server (mcp-file/server.py): read_file and list_files over a   *)
(* disk that holds the data directory, a directory beside it and symbolic  *)
(* links.  A location is the sequence of its components from the root.     *)
(***************************************************************************)

\* Longest requested path, in components.
MaxDepth == 2

\* DATA_DIR = Path("/data")
DATA_DIR == << "data" >>

Directory == [kind |-> "dir", target |-> << >>]
RegularFile == [kind |-> "file", target |-> << >>]
Symlink(t) == [kind |-> "link", target |-> t]

\* What is on the disk: /data with a file, a subdirectory, a link that
\* stays inside and a link that leaves; /etc beside it.
Disk ==
    (<< >> :> Directory)
    @@ (<< "data" >> :> Directory)
    @@ (<< "data", "hello" >> :> RegularFile)
    @@ (<< "data", "sub" >> :> Directory)
    @@ (<< "data", "sub", "hello" >> :> RegularFile)
    @@ (<< "data", "in" >> :> Symlink(<< "data", "sub" >>))
    @@ (<< "data", "out" >> :> Symlink(<< "etc" >>))
    @@ (<< "etc" >> :> Directory)
    @@ (<< "etc", "hello" >> :> RegularFile)

\* The path strings a request may carry: relative or absolute, up to
\* MaxDepth components, ".." among them.
Components == { "hello", "sub", "in", "out", "..", "etc", "data" }

PartsUpTo(n) == UNION { [1..k -> Components] : k \in 0..n }

RequestedPaths == [absolute : BOOLEAN, parts : PartsUpTo(MaxDepth)]

\* DATA_DIR / path: an absolute right operand replaces the left one.
Join(base, path) == IF path.absolute THEN path.parts ELSE base \o path.parts

Parent(at) == IF at = << >> THEN at ELSE SubSeq(at, 1, Len(at) - 1)

\* The location a path names on this disk: components are walked from the
\* root, ".." steps to the parent of where the walk stands, a symbolic link
\* is replaced by its target, a missing component is kept as written.
RECURSIVE Walk(_, _)
Walk(at, parts) ==
    IF parts = << >> THEN at
    ELSE LET c == Head(parts)
             p == Append(at, c)
             next == IF c = ".." THEN Parent(at)
                     ELSE IF p \in DOMAIN Disk /\ Disk[p].kind = "link"
                          THEN Disk[p].target
                          ELSE p
         IN  Walk(next, Tail(parts))

\* A path made normal by its text alone: ".." removes the component before
\* it, links are not looked at.
RECURSIVE Normpath(_, _)
Normpath(at, parts) ==
    IF parts = << >> THEN at
    ELSE Normpath(IF Head(parts) = ".." THEN Parent(at) ELSE Append(at, Head(parts)),
                  Tail(parts))

\* A variant of resolve() that does not follow links.
ResolveLexically(p) == Normpath(<< >>, p)

\* Path.resolve(): the absolute location with links followed and ".." removed.
Resolve(p) == Walk(<< >>, p)

\* Path.is_relative_to(other): other's components are a prefix of the path's.
is_relative_to(p, other) ==
    Len(p) >= Len(other) /\ SubSeq(p, 1, Len(other)) = other

\* The location the operating system reaches when a call is given path p.
Located(p) == Walk(<< >>, p)

\* One call on the file system and the location it reached.
Touch(call, p) == [call |-> call, at |-> Located(p)]

exists(p) == Located(p) \in DOMAIN Disk

is_file(p) == exists(p) /\ Disk[Located(p)].kind = "file"

is_dir(p) == exists(p) /\ Disk[Located(p)].kind = "dir"

Answer(op, path, outcome, touched) ==
    [op |-> op, path |-> path, outcome |-> outcome, touched |-> touched]

\* read_file, lines 42-76.
read_file(path) ==
    LET requested_path == Resolve(Join(DATA_DIR, path))
    IN  IF ~is_relative_to(requested_path, DATA_DIR)
        THEN Answer("read_file", path, "ValueError: Access denied", << >>)
        ELSE IF ~exists(requested_path)
        THEN Answer("read_file", path, "FileNotFoundError",
                    << Touch("exists", requested_path) >>)
        ELSE IF ~is_file(requested_path)
        THEN Answer("read_file", path, "ValueError: not a file",
                    << Touch("exists", requested_path),
                       Touch("is_file", requested_path) >>)
        ELSE Answer("read_file", path, "content",
                    << Touch("exists", requested_path),
                       Touch("is_file", requested_path),
                       Touch("read_text", requested_path) >>)

\* list_files, lines 79-103.
list_files(directory) ==
    LET target_dir == Resolve(Join(DATA_DIR, directory))
    IN  IF ~is_relative_to(target_dir, DATA_DIR)
        THEN Answer("list_files", directory, "ValueError: Access denied", << >>)
        ELSE IF ~exists(target_dir)
        THEN Answer("list_files", directory, "FileNotFoundError",
                    << Touch("exists", target_dir) >>)
        ELSE IF ~is_dir(target_dir)
        THEN Answer("list_files", directory, "ValueError: not a directory",
                    << Touch("exists", target_dir), Touch("is_dir", target_dir) >>)
        ELSE Answer("list_files", directory, "names",
                    << Touch("exists", target_dir), Touch("is_dir", target_dir),
                       Touch("iterdir", target_dir) >>)

FileFrame ==
    UNCHANGED << mode, pc, all_mcp_tools, tools, server_map, queried, answered, messages,
                 message, tool_calls, decision, results, inflight, dispatched, llm_calls,
                 replies, events, error, environ, config_instance, config_calls,
                 router_call, duo, client >>

InitFile ==
    /\ mode = "file"
    /\ pc = "file"
    /\ client = NoClient
    /\ router_call = NoRouterCall
    /\ duo = NoDuo
    /\ all_mcp_tools = << >>
    /\ tools = << >>
    /\ server_map = EmptyMap
    /\ queried = << >>
    /\ answered = << >>
    /\ messages = << >>
    /\ message = NoMessage
    /\ tool_calls = << >>
    /\ decision = NoDecision
    /\ results = << >>
    /\ inflight = NoRequest
    /\ dispatched = << >>
    /\ llm_calls = << >>
    /\ replies = << >>
    /\ events = << >>
    /\ error = "none"
    /\ environ = EmptyEnv
    /\ config_instance = AppConfig(environ)
    /\ config_calls = << >>
    /\ served = NoAnswer

\* A read_file request is served.
ReadFile ==
    /\ mode = "file"
    /\ \E path \in RequestedPaths : served' = read_file(path)
    /\ FileFrame

\* A list_files request is served.
ListFiles ==
    /\ mode = "file"
    /\ \E directory \in RequestedPaths : served' = list_files(directory)
    /\ FileFrame

NextFile == ReadFile \/ ListFiles

SpecFile == InitFile /\ [][NextFile]_vars

(***************************************************************************)
(* Properties.                                                             *)
(***************************************************************************)
Last(q) == q[Len(q)]

\* The batch was handed to execute_tools and execute_tools is over.
BatchOver == tool_calls # << >> /\ pc \in {"reasoning2", "done"}

\* The arguments execute_tool posts for a request: normalised, then fixed.
PostedArgs(tc) ==
    IF tc.name = "query_db" THEN fix_sql_args(NormalizeArgs(tc.arguments.m))
    ELSE NormalizeArgs(tc.arguments.m)

\* Result r is the outcome of request tc: a failure names its tool, a
\* success is what the backend answered to that very request.
BelongsTo(r, tc) ==
    IF r.error = "none"
    THEN IsDict(tc.arguments) /\ r.payload.served = ToolCall(tc.name, PostedArgs(tc))
    ELSE r.tool = tc.name

\* C1: for every batch of N requests execute_tools returns exactly N
\* results, the i-th belonging to the i-th request, however many calls fail.
C1_OneResultPerRequest ==
    BatchOver =>
        /\ Len(results) = Len(tool_calls)
        /\ \A k \in DOMAIN results : BelongsTo(results[k], tool_calls[k])

\* The failures the router is to capture: validation, unregistered name,
\* non-200 status, timeout, connection failure.
CapturedKinds ==
    {"ValidationError", "KeyError", "ValueError", "ConnectionError: timed out",
     "ConnectionError: cannot connect"}

\* The next call of the batch fails before any request is posted.
FailsEarly ==
    /\ inflight = NoRequest
    /\ Len(results) < Len(tool_calls)
    /\ IsDict(tool_calls[Len(results) + 1].arguments)
    /\ execute_tool(server_map, tool_calls[Len(results) + 1].name,
                    NormalizeArgs(tool_calls[Len(results) + 1].arguments.m)).exc # "none"

\* C2: a failing tool call (validation, unregistered name, non-200 status,
\* timeout, connection failure) becomes the failure outcome of that one
\* request; the batch goes on with the next request and the run goes on
\* to the second reasoning call.  As steps of the execution phase: every
\* step that ends a call appends exactly one result, a failure among them
\* naming its request, and leaves the run executing; the run leaves the
\* execution phase in failure only at a request whose arguments are no
\* mapping, never after a captured failure; and it reaches the second
\* reasoning call with one outcome per request.
C2_FailureIsCaptured ==
    [][pc = "executing" =>
        /\ (inflight # NoRequest /\ inflight' = NoRequest) =>
              /\ Len(results') = Len(results) + 1
              /\ SubSeq(results', 1, Len(results)) = results
              /\ Last(results').error \in CapturedKinds \cup {"none"}
              /\ BelongsTo(Last(results'), tool_calls[inflight.idx])
              /\ pc' = "executing" /\ error' = "none"
        /\ (FailsEarly /\ UNCHANGED inflight) =>
              /\ Len(results') = Len(results) + 1
              /\ Last(results').error \in CapturedKinds
              /\ Last(results').tool = tool_calls[Len(results')].name
              /\ pc' = "executing" /\ error' = "none"
        /\ pc' = "done" =>
              /\ inflight = NoRequest /\ Len(results) < Len(tool_calls)
              /\ ~IsDict(tool_calls[Len(results) + 1].arguments)
        /\ pc' = "reasoning2" =>
              /\ Len(results) = Len(tool_calls)
              /\ Len(llm_calls') = 2
    ]_vars

\* C2 witness: the first call of a batch of two failed, the second was
\* executed with success, and the second reasoning call was sent.
C2_Witness ==
    /\ pc = "reasoning2"
    /\ Len(results) = 2
    /\ results[1].error \in CapturedKinds
    /\ results[2].error = "none"
    /\ Len(llm_calls) = 2

\* C3: a request whose tool name is not in the routing table yields a
\* failure outcome for that request, tagged as not registered, and no
\* exception escapes execute_tools.
C3_UnregisteredIsFailure ==
    BatchOver =>
        \A k \in DOMAIN tool_calls :
            tool_calls[k].name \notin DOMAIN server_map =>
                /\ error # "ToolExecutionError"
                /\ k \in DOMAIN results
                /\ results[k].error = "KeyError"
                /\ results[k].tool = tool_calls[k].name

\* C4: parse_tool_calls returns a decision for every message, also for one
\* whose content is empty, missing or null, and never raises.
C4_ParsingIsTotal == pc = "parsed" => decision.exc = "none"

\* The structured tool-call field of the message is empty.
NoStructuredCalls(m) == m.tc # "list" \/ m.calls = << >>

\* The free-text content is one JSON object (after the repair of escapes).
IsJsonObject(c) ==
    /\ c.kind = "text"
    /\ Len(Strip(c.text)) = 1
    /\ Strip(c.text)[1].s = "obj"
    /\ Strip(c.text)[1].form \in {"json", "badesc"}

ObjectOf(c) == Strip(c.text)[1].obj

LooksLikeToolCall(o) ==
    "name" \in o.keys /\ ("parameters" \in o.keys \/ "arguments" \in o.keys)

\* C5: with an empty structured field and a content that is a JSON object
\* with a name key and a parameters or arguments key, parse_tool_calls
\* returns one invocation: the object's name, and as arguments the value of
\* its parameters (or arguments) key.
C5_FallbackSynthesizes ==
    (pc = "parsed" /\ NoStructuredCalls(message) /\ IsJsonObject(message.content)
        /\ LooksLikeToolCall(ObjectOf(message.content))) =>
        LET o == ObjectOf(message.content)
        IN  /\ decision.exc = "none"
            /\ ~decision.none
            /\ Len(decision.tool_calls) = 1
            /\ decision.tool_calls[1].name = o.name
            /\ \/ "parameters" \in o.keys /\ decision.tool_calls[1].arguments = o.parameters
               \/ "arguments" \in o.keys /\ decision.tool_calls[1].arguments = o.arguments

\* C6: with an empty structured field and a content that is no JSON, or is
\* an object lacking name or lacking both parameters and arguments, the
\* decision is a direct answer (no tool calls, is_direct_answer true) and
\* the final answer of the run is the raw content.
C6_UnparsableIsDirectAnswer ==
    (decision.exc # "-" /\ NoStructuredCalls(message) /\ message.content.kind = "text"
        /\ (~IsJsonObject(message.content)
            \/ ~LooksLikeToolCall(ObjectOf(message.content)))) =>
        /\ decision.exc = "none"
        /\ decision.none
        /\ decision.is_direct_answer
        /\ pc = "done" =>
              /\ Last(events).type = "final_answer"
              /\ Last(events).content = message.content

\* C7: a non-empty structured tool-call field is returned as it is, in the
\* same order, whatever the content; the fallback is not applied and the
\* decision is not a direct answer.
C7_StructuredCallsWin ==
    (pc = "parsed" /\ ~NoStructuredCalls(message)) =>
        decision = Returned(FALSE, message.calls, FALSE)

\* C7 witness: two structured calls next to a content the fallback would
\* turn into a call of its own.
C7_Witness ==
    /\ pc = "parsed"
    /\ Len(message.calls) = 2
    /\ message.calls[1] # message.calls[2]
    /\ IsJsonObject(message.content)
    /\ LooksLikeToolCall(ObjectOf(message.content))
    /\ decision.tool_calls = message.calls

\* The run took the branch without tool calls.
DirectBranch == decision.exc = "none" /\ ~IsToolBranch(decision)

FinalAnswers == SelectSeq(events, LAMBDA e : e.type = "final_answer")

\* C8: when the decision is a direct answer, the final answer of run and of
\* chat is the content of the first response unchanged, no tool is
\* dispatched and there is no second reasoning call.
C8_DirectAnswerRoundTrip ==
    DirectBranch =>
        /\ dispatched = << >>
        /\ inflight = NoRequest
        /\ Len(llm_calls) = 1
        /\ \A k \in DOMAIN FinalAnswers :
              message.content.kind = "text" => FinalAnswers[k].content = message.content
        /\ decision.is_direct_answer =>
              /\ pc = "done"
              /\ Len(FinalAnswers) = 1
              /\ Last(events).type = "final_answer"
              /\ Last(events).content = message.content

\* C8 witness: a direct answer whose content has whitespace around it was
\* delivered.
C8_Witness ==
    /\ pc = "done"
    /\ DirectBranch
    /\ decision.is_direct_answer
    /\ message.content = Text(<< Ws, Prose, Ws >>)
    /\ Last(events).type = "final_answer"

StepStarts == SelectSeq(events, LAMBDA e : e.type = "step_start")

IsTerminal(e) == e.type \in {"final_answer", "error"}

\* C9: the phases come in the order discovery, first reasoning call,
\* parsing, then (with tool calls only) execution, second reasoning call,
\* final answer: no reasoning call before discovery returned a non-empty
\* catalog, no dispatch before the first response was parsed into tool
\* calls, the second reasoning call only once every request has its outcome,
\* and the STEP_START events of run number the steps 1, 2, 3, ... in order.
C9_PhaseOrder ==
    /\ llm_calls # << >> =>
          /\ queried = << "file", "db" >>
          /\ tools # << >>
          /\ pc \notin {"start", "discover_file", "discover_db", "discovered"}
    /\ (decision.exc # "-") => (Len(llm_calls) >= 1 /\ pc \notin {"reasoning1", "parsing"})
    /\ (dispatched # << >> \/ results # << >> \/ inflight # NoRequest) =>
          /\ decision.exc = "none"
          /\ IsToolBranch(decision)
          /\ tool_calls = decision.tool_calls
          /\ Len(dispatched) <= Len(tool_calls)
    /\ Len(llm_calls) <= 2
    /\ Len(llm_calls) = 2 =>
          /\ tool_calls # << >>
          /\ Len(results) = Len(tool_calls)
          /\ inflight = NoRequest
          /\ pc \in {"reasoning2", "done"}
    /\ \A k \in DOMAIN events :
          events[k].type = "final_answer" =>
              /\ decision.exc = "none"
              /\ Len(llm_calls) = IF IsToolBranch(decision) THEN 2 ELSE 1
    /\ mode = "run" => \A j \in DOMAIN StepStarts : StepStarts[j].step = j

\* C9 witness: a run through all phases, with a batch of two.
C9_Witness ==
    /\ mode = "run"
    /\ pc = "done"
    /\ Len(tool_calls) = 2
    /\ Len(dispatched) = 2
    /\ Len(llm_calls) = 2
    /\ Len(StepStarts) = 5
    /\ Last(events).type = "final_answer"

\* C10: the events of a run hold exactly one terminal event, FINAL_ANSWER
\* or ERROR, and it is the last one; every exception raised in discovery,
\* reasoning, parsing, execution or synthesis ends the run with that ERROR
\* event; a failed run asks no backend again.
C10_OneTerminalEvent ==
    mode = "run" =>
        /\ \A k \in DOMAIN events : IsTerminal(events[k]) => (k = Len(events) /\ pc = "done")
        /\ pc = "done" =>
              /\ events # << >>
              /\ IsTerminal(Last(events))
              /\ (error = "none") <=> (Last(events).type = "final_answer")
              /\ (error # "none") <=> (Last(events).type = "error")
        /\ error # "none" => pc = "done"
        /\ Len(queried) <= 2 /\ Len(llm_calls) <= 2
        /\ \A j, k \in DOMAIN dispatched : j < k => dispatched[j].idx < dispatched[k].idx

\* C10 witness: a run ended by an exception of the execution phase after a
\* first call of the batch had its outcome.
C10_Witness ==
    /\ mode = "run"
    /\ pc = "done"
    /\ error = "ToolExecutionError"
    /\ Len(results) = 1
    /\ Last(events).type = "error"

(***************************************************************************)
(* Discovery.                                                              *)
(***************************************************************************)
\* discover_all_tools has returned to run / chat.
Discovered == pc \notin {"start", "discover_file", "discover_db"}

Responded(k) == answered[k].exc = "none"

AllBackendsFailed == Len(answered) = 2 /\ ~Responded(1) /\ ~Responded(2)

\* C11: when every backend fails discovery, discover_all_tools returns an
\* empty catalog (and routing table) without raising, and the run ends
\* there: its last event is the error of step 1 (the printed error in
\* chat), there is no final answer, no reasoning call and no tool dispatch.
C11_EmptyCatalogIsTerminal ==
    (Discovered /\ AllBackendsFailed) =>
        /\ tools = << >> /\ server_map = EmptyMap
        /\ pc \in {"discovered", "done"}
        /\ pc = "discovered" => error = "none"
        /\ pc = "done" =>
              /\ error = "NoTools"
              /\ Last(events) = Event("error", 1)
              /\ FinalAnswers = << >>
        /\ llm_calls = << >> /\ replies = << >>
        /\ dispatched = << >> /\ inflight = NoRequest /\ results = << >>

\* C11 witness: both backends failed and the run ended with the error.
C11_Witness ==
    /\ pc = "done"
    /\ AllBackendsFailed
    /\ queried = << "file", "db" >>
    /\ error = "NoTools"
    /\ Last(events).type = "error"

\* The listing of the k-th backend asked, empty when it failed.
ListingOf(k) == IF Responded(k) THEN answered[k].tools ELSE << >>

\* The URL tools of the k-th backend asked are routed to.
BackendUrl(k) ==
    IF queried[k] = "file" THEN MCPClientUrl(mcp_file_url) ELSE MCPClientUrl(mcp_db_url)

Names(q) == { q[i] : i \in DOMAIN q }

CatalogNames == [k \in DOMAIN tools |-> tools[k].name]

\* C12: discovery is best-effort per backend.  Whichever backend fails
\* (by timeout, refused connection or malformed response), it is skipped:
\* the catalog is what the responding backends listed, in the order asked,
\* every tool of a responding backend is in the routing table, and when
\* one backend alone responds the catalog and the routing table hold its
\* tools, all of them and nothing else, routed to it, and the run goes on
\* to the first reasoning call with that catalog.
C12_BestEffortDiscovery ==
    (Discovered /\ Len(answered) = 2) =>
        /\ CatalogNames = ListingOf(1) \o ListingOf(2)
        /\ Names(ListingOf(1)) \cup Names(ListingOf(2)) = DOMAIN server_map
        /\ \A k \in 1..2 :
              (Responded(k) /\ ~Responded(3 - k)) =>
                  /\ Len(tools) = Len(answered[k].tools)
                  /\ \A n \in DOMAIN server_map : server_map[n] = BackendUrl(k)
                  /\ error # "NoTools"
                  /\ pc # "discovered" =>
                        /\ llm_calls # << >>
                        /\ llm_calls[1].tools = tools

\* C12 witness: the file backend failed, the database backend listed two
\* tools, the catalog has two entries and the run went on to its answer.
C12_Witness ==
    /\ pc = "done"
    /\ error = "none"
    /\ ~Responded(1) /\ Responded(2)
    /\ Len(answered[2].tools) = 2
    /\ Len(tools) = 2
    /\ Last(events).type = "final_answer"

\* The backends, by the order asked, that listed tool name n.
ListedBy(n) == { k \in 1..2 : Responded(k) /\ n \in Names(answered[k].tools) }

NoDuplicateNames(catalog) ==
    \A i, j \in DOMAIN catalog : catalog[i].name = catalog[j].name => i = j

\* C14: the catalog discovery returns, and every catalog sent to the
\* reasoning backend, holds no two tool descriptors of the same name, also
\* when both backends list a tool of the same name.
C14_CatalogDeduplicated ==
    /\ Discovered => NoDuplicateNames(tools)
    /\ \A c \in DOMAIN llm_calls : NoDuplicateNames(llm_calls[c].tools)

(***************************************************************************)
(* The reasoning calls.                                                    *)
(***************************************************************************)
ConnectivityFailures == {"Timeout", "ConnectionError"}

\* C15: when a reasoning call, the first or the second, times out or cannot
\* connect, the run ends there in failure with LLMConnectionError: its last
\* event is the ERROR event, no further backend is asked, and no final
\* answer, whole or partial, is emitted.
C15_ReasoningTimeoutFailsRun ==
    \A k \in DOMAIN replies :
        replies[k].outcome \in ConnectivityFailures =>
            /\ k = Len(replies) /\ Len(llm_calls) = k
            /\ pc = "done"
            /\ error = "LLMConnectionError"
            /\ Last(events) = Event("error", 0)
            /\ FinalAnswers = << >>
            /\ \A e \in DOMAIN events : events[e].content = Missing

\* C15 witness: the second reasoning call timed out after a batch of two
\* was executed.
C15_Witness ==
    /\ Len(replies) = 2
    /\ replies[2].outcome = "Timeout"
    /\ Len(results) = 2
    /\ error = "LLMConnectionError"
    /\ Last(events).type = "error"

\* What run and chat make of a failure of the reasoning backend:
\* connectivity error or protocol error.
Surfaced(outcome) ==
    IF outcome \in ConnectivityFailures THEN "LLMConnectionError" ELSE "ValueError"

\* C16: the reasoning client swallows no failure.  When the backend cannot
\* be reached, times out or answers with a non-success status, chat raises
\* (a connectivity error, a protocol error for the status) and returns no
\* response message: nothing of that call is parsed or delivered, and the
\* run that made the call ends with the ERROR event carrying that error.
C16_ReasoningFailurePropagates ==
    \A k \in DOMAIN replies :
        replies[k].outcome \in LLMFailures =>
            /\ k = Len(replies)
            /\ pc = "done"
            /\ error = Surfaced(replies[k].outcome)
            /\ Last(events).type = "error"
            /\ k = 1 => (message = NoMessage /\ decision = NoDecision /\ tool_calls = << >>)
            /\ FinalAnswers = << >>

\* C16 witness: the first call got a non-success status and the run ended
\* with the protocol error.
C16_Witness ==
    /\ Len(replies) = 1
    /\ replies[1].outcome = "HTTPError"
    /\ pc = "done"
    /\ error = "ValueError"
    /\ Last(events).type = "error"

\* C17: the conversation of the second reasoning call is the initial
\* conversation [system, user], then the message of the first response as
\* the backend sent it, then one message of role tool per result, in the
\* order of the results, its content the string json.dumps makes of the
\* result (success payload or error); the final answer is the content of
\* the second response.
C17_SynthesisConversation ==
    Len(llm_calls) = 2 =>
        LET c == llm_calls[2].messages
        IN  /\ Len(c) = 3 + Len(results)
            /\ SubSeq(c, 1, 2) = llm_calls[1].messages
            /\ c[1].role = "system"
            /\ c[2].role = "user" /\ c[2].text = Prompt
            /\ c[3].role = "assistant" /\ c[3].msg = replies[1].msg
            /\ \A k \in DOMAIN results :
                  /\ c[3 + k].role = "tool"
                  /\ c[3 + k].content = JsonDumps(results[k])
            /\ llm_calls[2].tools = llm_calls[1].tools
            /\ FinalAnswers # << >> =>
                  /\ Len(replies) = 2
                  /\ FinalAnswers = << FinalAnswer(replies[2].msg.content) >>
                  /\ Last(events) = FinalAnswers[1]

\* C17 witness: a batch of two, the first call failed and the second
\* succeeded, and the answer of the second response was delivered.
C17_Witness ==
    /\ pc = "done"
    /\ error = "none"
    /\ Len(llm_calls) = 2
    /\ Len(results) = 2
    /\ results[1].error # "none"
    /\ results[2].error = "none"
    /\ Len(llm_calls[2].messages) = 5
    /\ Last(events).content = replies[2].msg.content
    /\ replies[2].msg.content = Text(<< Prose >>)

(***************************************************************************)
(* Retries and order of execution.                                         *)
(***************************************************************************)
\* C18: nothing is tried again.  In one run each tool backend is asked for
\* its tools at most once, the reasoning backend is called at most twice
\* and exactly once when the decision is a direct answer, each request of
\* the batch is posted to its backend at most once, and the tool calls
\* of the second response are never executed: every request posted is one
\* of the first response's batch.
C18_NoRetries ==
    /\ Len(queried) <= 2 /\ Len(answered) = Len(queried)
    /\ \A i, j \in DOMAIN queried : queried[i] = queried[j] => i = j
    /\ Len(replies) <= Len(llm_calls) /\ Len(llm_calls) <= 2
    /\ (pc = "done" /\ error = "none" /\ DirectBranch) =>
          (Len(llm_calls) = 1 /\ Len(replies) = 1)
    /\ \A i, j \in DOMAIN dispatched : dispatched[i].idx = dispatched[j].idx => i = j
    /\ \A i \in DOMAIN dispatched :
          /\ dispatched[i].idx \in DOMAIN decision.tool_calls
          /\ decision = parse_tool_calls(replies[1].msg)
          /\ dispatched[i].call.name = decision.tool_calls[dispatched[i].idx].name
    /\ Len(replies) = 2 =>
          /\ pc = "done"
          /\ Len(dispatched) <= Len(decision.tool_calls)
          /\ Len(results) = Len(decision.tool_calls)

\* C18 witness: the second response came with a tool call of its own and
\* the run ended with its answer; the one request of the batch failed by
\* timeout and was posted once.
C18_Witness ==
    /\ pc = "done"
    /\ error = "none"
    /\ Len(replies) = 2
    /\ replies[2].msg.calls # << >>
    /\ Len(tool_calls) = 1
    /\ Len(dispatched) = 1
    /\ results[1].error = "ConnectionError: timed out"

\* The requests posted whose outcome is not yet among the results.
InFlight == { i \in DOMAIN dispatched : dispatched[i].idx > Len(results) }

\* C19: the calls of a batch are executed one after the other in request
\* order.  A request is posted only when the outcome of every request
\* before it is recorded and no request is waiting for its answer, it is
\* the request that follows the recorded outcomes, and at no time is more
\* than one request in flight.
C19_SequentialExecution ==
    [][/\ Cardinality(InFlight') <= 1
       /\ dispatched' # dispatched =>
             /\ inflight = NoRequest /\ InFlight = {}
             /\ dispatched' = Append(dispatched, inflight')
             /\ inflight'.idx = Len(results) + 1
             /\ results' = results
             /\ \A i \in DOMAIN dispatched : dispatched[i].idx < inflight'.idx
             /\ inflight'.call.name = tool_calls[inflight'.idx].name
    ]_vars

\* C19 witness: the second request of a batch is in flight, the outcome of
\* the first is recorded.
C19_Witness ==
    /\ pc = "executing"
    /\ Len(tool_calls) = 2
    /\ Len(dispatched) = 2
    /\ Len(results) = 1
    /\ inflight.idx = 2
    /\ InFlight = {2}

(***************************************************************************)
(* Configuration.                                                          *)
(***************************************************************************)
\* C20: invalid configuration is fatal at startup.  In every sequence of
\* get_config and reset_config calls, a get_config call made while the
\* configuration loaded fails validate raises, and no get_config call
\* returns a configuration that fails validate.
C20_InvalidConfigAlwaysRaises ==
    \A k \in DOMAIN config_calls :
        config_calls[k].op = "get_config" =>
            /\ validate(config_calls[k].loaded) # "none" => config_calls[k].exc # "none"
            /\ config_calls[k].exc = "none" => validate(config_calls[k].returned) = "none"

\* A URL is well-formed: an http(s) scheme and something after it.
WellFormedUrl(u) == u.scheme \in {"http://", "https://"} /\ u.rest # ""

\* C21: every configuration get_config hands out has a non-empty,
\* well-formed URL for the reasoning backend, the file backend and the
\* database backend, and a non-empty model name: an empty or malformed
\* tool-backend URL is rejected at startup.
C21_AllEndpointsValidated ==
    \A k \in DOMAIN config_calls :
        (config_calls[k].op = "get_config" /\ config_calls[k].exc = "none") =>
            /\ WellFormedUrl(config_calls[k].returned.ollama_url)
            /\ WellFormedUrl(config_calls[k].returned.mcp_file_url)
            /\ WellFormedUrl(config_calls[k].returned.mcp_db_url)
            /\ config_calls[k].returned.model_name # EmptyString

\* q extends p: p is what q starts with.
IsPrefix(p, q) == Len(p) <= Len(q) /\ SubSeq(q, 1, Len(p)) = p

\* C22: the conversation of a run grows monotonically: it starts as exactly
\* the system message followed by the user message holding the prompt, and
\* every step leaves it an extension of what it was (nothing removed,
\* reordered or modified).
C22_ConversationGrows ==
    [][ /\ messages # << >> => IsPrefix(messages, messages')
        /\ (messages = << >> /\ messages' # << >>) =>
              /\ Len(messages') = 2
              /\ messages'[1].role = "system"
              /\ messages'[2].role = "user" /\ messages'[2].text = Prompt ]_vars

\* The conversation was extended with the assistant's message and two tool results.
C22_Witness ==
    /\ pc = "reasoning2"
    /\ Len(messages) = 5
    /\ messages[3].role = "assistant"
    /\ messages[5].role = "tool"

\* The table but for the entry of name n.
Others(map, n) == [m \in DOMAIN map \ {n} |-> map[m]]

\* C23: the routing table is read-only during execution: execute_tool,
\* execute_tools and route leave it with the keys and values it had, whatever
\* the outcomes; only register_tool and unregister_tool change it, and they
\* leave what discovery produced (backends asked, catalog) alone.
C23_RoutingTableReadOnly ==
    [][ /\ router_call'.op \in {"route", "execute_tool", "execute_tools"} =>
              server_map' = server_map
        /\ server_map' # server_map =>
              router_call'.op \in {"register_tool", "unregister_tool"}
        /\ router_call'.op \in {"register_tool", "unregister_tool"} =>
              UNCHANGED << queried, answered, all_mcp_tools, tools >> ]_vars

\* A batch ran in which one call raised KeyError and another was posted and
\* timed out, and the table is the one the batch started with.
C23_Witness ==
    /\ router_call.op = "execute_tools"
    /\ \E k \in DOMAIN router_call.passes : router_call.passes[k].exc = "KeyError"
    /\ \E k \in DOMAIN router_call.passes :
          router_call.passes[k].posted /\ router_call.passes[k].exc # "none"
    /\ server_map = router_call.before
    /\ server_map # EmptyMap

\* C24: after register_tool(n, u), route(n) returns u, whatever n had before;
\* after unregister_tool(n), route(n) raises KeyError; unregister_tool of a
\* name that is not registered raises nothing and leaves the table as it
\* was; the entries of the other names are never affected; and route
\* returns what the table holds.
C24_RegisterUnregister ==
    [][ /\ router_call'.op = "register_tool" =>
              /\ route(server_map', router_call'.name) =
                    [exc |-> "none", url |-> router_call'.url]
              /\ Others(server_map', router_call'.name) = Others(server_map, router_call'.name)
        /\ router_call'.op = "unregister_tool" =>
              /\ router_call'.exc = "none"
              /\ route(server_map', router_call'.name).exc = "KeyError"
              /\ Others(server_map', router_call'.name) = Others(server_map, router_call'.name)
              /\ router_call'.name \notin DOMAIN server_map => server_map' = server_map
        /\ router_call'.op = "route" =>
              IF router_call'.name \in DOMAIN server_map
              THEN router_call'.exc = "none" /\ router_call'.url = server_map[router_call'.name]
              ELSE router_call'.exc = "KeyError" ]_vars

\* register_tool replaced the URL a name had.
C24_Witness ==
    /\ router_call.op = "register_tool"
    /\ router_call.name \in DOMAIN router_call.before
    /\ router_call.before[router_call.name] # router_call.url
    /\ server_map[router_call.name] = router_call.url

\* C25: every execution result, success or failure, identifies the tool it
\* belongs to: the k-th result carries the name of the k-th request.
C25_ResultsNameTheirTool ==
    \A k \in DOMAIN results :
        k \in DOMAIN tool_calls => results[k].tool = tool_calls[k].name

\* C26: in every run the timeout of each reasoning call is strictly longer
\* than the timeout of each request posted to a tool backend.
C26_ReasoningTimeoutLonger ==
    \A c \in DOMAIN llm_calls : \A d \in DOMAIN dispatched :
        llm_calls[c].timeout > dispatched[d].timeout

\* Both reasoning calls were sent and a tool request was posted in between.
C26_Witness ==
    /\ Len(llm_calls) = 2
    /\ dispatched # << >>
    /\ llm_calls[1].timeout > dispatched[1].timeout

\* C27: each run works on its own snapshot: the catalog sent in its
\* reasoning calls and the table its router is built on are the ones its
\* own discovery returned, and its conversation holds no message of the
\* other run, however the two runs are interleaved and whether or not they
\* are generators of the same MCPAgent object.
C27_RunsUseOwnSnapshot ==
    \A r \in Runs :
        /\ \A k \in DOMAIN duo.run[r].sent : duo.run[r].sent[k] = duo.run[r].own.tools
        /\ \A k \in DOMAIN duo.run[r].routed :
              duo.run[r].routed[k] = duo.run[r].own.server_map
        /\ \A k \in DOMAIN duo.run[r].messages :
              /\ duo.run[r].messages[k].role = "user" =>
                    duo.run[r].messages[k].text = PromptOf(r)
              /\ duo.run[r].messages[k].role = "tool" =>
                    duo.run[r].messages[k].content.json.error = PromptOf(r)

\* C28: execute_tools normalizes the arguments of each call before
\* execute_tool validates them: an argument wrapped as {"value": x} is
\* replaced by x, one level only (a value wrapped twice stays wrapped once),
\* every other argument is passed on as it is, the argument names are the
\* same, and validation judges the normalized arguments.
C28_NormalizationOneLevel ==
    router_call.op = "execute_tools" =>
        \A k \in DOMAIN router_call.passes :
            LET raw == router_call.tool_calls[k].arguments.m
                got == router_call.passes[k].arguments
            IN  /\ DOMAIN got = DOMAIN raw
                /\ \A key \in DOMAIN raw :
                      /\ raw[key].w = 0 => got[key] = raw[key]
                      /\ raw[key].w > 0 =>
                            got[key] = [w |-> raw[key].w - 1, b |-> raw[key].b]
                /\ router_call.passes[k].exc = "ValidationError" <=>
                      validate_tool_arguments(router_call.tool_calls[k].name, got)

\* A batch held a value wrapped twice next to a plain one, and a wrapped
\* destructive statement that validation rejected once unwrapped.
C28_Witness ==
    /\ router_call.op = "execute_tools"
    /\ Len(router_call.passes) = 2
    /\ router_call.tool_calls[1].arguments.m = PathTwiceWrapped
    /\ router_call.passes[1].arguments["path"] = Wrapped("a.txt")
    /\ router_call.passes[1].arguments["encoding"] = Scalar("utf-8")
    /\ router_call.tool_calls[2].arguments.m = SqlDropWrapped
    /\ router_call.passes[2].arguments = SqlDrop
    /\ router_call.passes[2].exc = "ValidationError"

\* The calls of a batch that execute_tool is reached with: those before the
\* first whose arguments are no mapping.
Reached(calls) == { k \in DOMAIN calls : \A j \in 1..k : IsDict(calls[j].arguments) }

\* C29: execute_tool validates, then repairs the SQL of query_db, then
\* routes, then posts.  A call whose arguments fail validation raises
\* ValidationError and a call whose name is not in the routing table raises
\* KeyError, neither posts anything, and in execute_tools either becomes the
\* failure result of that call while the calls after it are still made; a
\* call that passes both is posted to the URL of its name with the repaired
\* arguments.
C29_ValidateRouteDispatch ==
    router_call.op \in {"execute_tool", "execute_tools"} =>
        /\ \A k \in DOMAIN router_call.passes :
              LET run == router_call.passes[k]
                  invalid == validate_tool_arguments(run.name, run.arguments)
                  unknown == run.name \notin DOMAIN router_call.before
              IN  /\ invalid => ~run.posted /\ run.exc = "ValidationError"
                  /\ (~invalid /\ unknown) => ~run.posted /\ run.exc = "KeyError"
                  /\ (~invalid /\ ~unknown) =>
                        /\ run.posted
                        /\ run.url = router_call.before[run.name]
                        /\ run.call.name = run.name
                        /\ run.call.arguments =
                              IF run.name = "query_db" THEN fix_sql_args(run.arguments)
                              ELSE run.arguments
        /\ router_call.op = "execute_tools" =>
              /\ DOMAIN router_call.passes = Reached(router_call.tool_calls)
              /\ DOMAIN router_call.results = DOMAIN router_call.passes
              /\ \A k \in DOMAIN router_call.passes :
                    ~router_call.passes[k].posted =>
                        router_call.results[k] =
                            ErrorResult(router_call.passes[k].exc,
                                        router_call.tool_calls[k].name)

\* The first call of a batch failed validation while its tool was not even
\* registered, the second named an unknown tool: nothing was posted and
\* both have their failure result.
C29_Witness ==
    /\ router_call.op = "execute_tools"
    /\ Len(router_call.passes) = 2
    /\ router_call.passes[1].exc = "ValidationError"
    /\ router_call.passes[1].name \notin DOMAIN router_call.before
    /\ router_call.passes[2].exc = "KeyError"
    /\ \A k \in DOMAIN router_call.passes : ~router_call.passes[k].posted
    /\ Len(router_call.results) = 2
    /\ router_call.results[2].error = "KeyError"

\* C30: parse_tool_calls classifies every message it returns for as exactly
\* one of the two decisions: is_direct_answer is True if and only if no tool
\* calls are returned, and the tool calls are a non-empty list if and only
\* if is_direct_answer is False; a message with empty content and no
\* structured tool calls included.
C30_ExactlyOneDecision ==
    (pc = "parsed" /\ decision.exc = "none") =>
        /\ decision.is_direct_answer <=> (decision.none \/ decision.tool_calls = << >>)
        /\ (~decision.none /\ decision.tool_calls # << >>) <=> ~decision.is_direct_answer

\* C31: every invocation the fallback synthesizes carries a mapping as its
\* arguments, whatever the value of the parameters or arguments key of the
\* content object (an empty mapping and null included), so that the batch
\* does not end the run with an exception raised outside the per-call
\* capture of execute_tools.
C31_FallbackArgumentsAreMapping ==
    (decision.exc = "none" /\ ~decision.none /\ NoStructuredCalls(message)) =>
        /\ \A k \in DOMAIN decision.tool_calls : IsDict(decision.tool_calls[k].arguments)
        /\ error # "ToolExecutionError"

\* The object chunks of a text.
ObjectsIn(t) == { i \in DOMAIN t : t[i].s = "obj" }

\* The text holds exactly one brace-delimited chunk, it is a JSON object
\* (once its escapes are repaired) and it has the keys of a tool call.
HoldsOneToolCall(t) ==
    /\ Cardinality(ObjectsIn(t)) = 1
    /\ \A i \in ObjectsIn(t) :
          t[i].form \in {"json", "badesc"} /\ LooksLikeToolCall(t[i].obj)

\* C32 as stated: the fallback fires only when the content as a whole is a
\* single JSON object; an object surrounded by prose is a direct answer.
C32_FallbackOnlyOnWholeObject ==
    (pc = "parsed" /\ NoStructuredCalls(message) /\ decision.exc = "none"
        /\ ~decision.none) => IsJsonObject(message.content)

\* C32, amended: the fallback fires exactly when the content, from its first
\* opening brace to its last closing brace, is a single JSON object with a
\* name key and a parameters or arguments key; prose before or after that
\* object does not prevent it, and the object is converted into a tool call.
C32_FallbackOnEmbeddedObject ==
    (pc = "parsed" /\ NoStructuredCalls(message) /\ message.content.kind = "text"
        /\ Strip(message.content.text) # << >>) =>
        /\ decision.exc = "none"
        /\ ~decision.none <=> HoldsOneToolCall(message.content.text)
        /\ ~decision.none =>
              /\ Len(decision.tool_calls) = 1
              /\ \A i \in ObjectsIn(message.content.text) :
                    decision.tool_calls[1].name = message.content.text[i].obj.name
              /\ ~decision.is_direct_answer

\* An object surrounded by prose was converted into a tool call.
C32_Witness ==
    /\ pc = "parsed"
    /\ NoStructuredCalls(message)
    /\ message.content = Text(<< Prose, Chunk("json", ObjArgs), Prose >>)
    /\ ~decision.none
    /\ decision.tool_calls = << ToolCall("read_file", JMap(PathA)) >>

EventsOf(type) == SelectSeq(events, LAMBDA e : e.type = type)

PositionsOf(type) == { i \in DOMAIN events : events[i].type = type }

\* C33: in the tool branch of run, a batch of N requests is announced by
\* exactly N TOOL_CALL events, in the order of the batch and before any
\* request is dispatched; once execute_tools has returned, exactly N
\* TOOL_RESULT events follow, every one after every TOOL_CALL event, the
\* i-th carrying the outcome of the request the i-th TOOL_CALL announced.
C33_ToolEvents ==
    mode = "run" =>
        /\ Len(EventsOf("tool_call")) = Len(tool_calls)
        /\ \A k \in DOMAIN tool_calls : EventsOf("tool_call")[k].tool = tool_calls[k].name
        /\ (dispatched # << >> \/ results # << >>) => tool_calls # << >>
        /\ \A i \in PositionsOf("tool_call") : \A j \in PositionsOf("tool_result") : i < j
        /\ Len(EventsOf("tool_result")) \in {0, Len(tool_calls)}
        /\ Len(llm_calls) = 2 =>
              /\ Len(EventsOf("tool_result")) = Len(tool_calls)
              /\ \A k \in DOMAIN tool_calls :
                    /\ EventsOf("tool_result")[k].result = results[k]
                    /\ BelongsTo(results[k], tool_calls[k])
        /\ EventsOf("tool_result") # << >> => Len(llm_calls) = 2

\* A batch of two was announced, one call succeeded and one failed, and
\* both outcomes were yielded.
C33_Witness ==
    /\ mode = "run"
    /\ Len(tool_calls) = 2
    /\ Len(EventsOf("tool_result")) = 2
    /\ EventsOf("tool_result")[1].result.error = "none"
    /\ EventsOf("tool_result")[2].result.error # "none"
    /\ Len(dispatched) = 2

\* C34: run and chat implement the same loop: for the same backend
\* behaviours both end the same way.  The backend calls and conversations
\* are those of the shared steps; where the first response is answered
\* directly, either mode ends as run does for that response: the same final
\* answer, or an error in both.
C34_RunAndChatAgree ==
    (pc = "done" /\ decision.exc = "none" /\ ~IsToolBranch(decision)) =>
        /\ error = DirectAnswer("run", message).exc
        /\ Last(events).type = Last(DirectAnswer("run", message).events).type
        /\ Last(events).content = Last(DirectAnswer("run", message).events).content

\* The configured URL of the k-th backend asked, ending in /mcp.
NormalizedUrl(k) ==
    Url((IF queried[k] = "file" THEN mcp_file_url ELSE mcp_db_url).base, "/mcp")

\* C35: after discovery the keys of the routing table are the tool names of
\* the catalog, each mapped to the /mcp-normalized URL of a backend that
\* listed the name in this discovery; hence every tool offered in a
\* reasoning call is routable and no entry routes a tool that is not
\* offered.
C35_CatalogAndTableAgree ==
    (Discovered /\ Len(answered) = 2) =>
        /\ DOMAIN server_map = { tools[k].name : k \in DOMAIN tools }
        /\ \A n \in DOMAIN server_map :
              \E k \in 1..2 :
                  /\ Responded(k)
                  /\ n \in Names(answered[k].tools)
                  /\ server_map[n] = NormalizedUrl(k)
        /\ \A c \in DOMAIN llm_calls :
              /\ \A k \in DOMAIN llm_calls[c].tools :
                    route(server_map, llm_calls[c].tools[k].name).exc = "none"
              /\ \A n \in DOMAIN server_map :
                    \E k \in DOMAIN llm_calls[c].tools : llm_calls[c].tools[k].name = n

\* Both backends listed their tools, three names are routed, and the
\* catalog was offered in a reasoning call.
C35_Witness ==
    /\ Discovered
    /\ Len(answered) = 2
    /\ Responded(1) /\ Responded(2)
    /\ Cardinality(DOMAIN server_map) = 3
    /\ llm_calls # << >>
    /\ server_map["list_files"] = Url("http://mcp-file:3333", "/mcp")

\* C36: get_tools(use_cache=True) contacts the server only when no tool
\* list is cached: with a list cached it returns that list without opening
\* a session, and the cache stays as it is until clear_cache() or a
\* get_tools that contacts the server; get_tools(use_cache=False), and
\* get_tools on an empty cache, always contact the server, and when they
\* succeed the cache is the list they return.
C36_CacheAvoidsContact ==
    [][ /\ (client.pc = "idle" /\ client'.op = "get_tools") =>
              IF client'.use_cache /\ client.cache.set
              THEN /\ client'.pc = "idle"
                   /\ client'.exc = "none"
                   /\ client'.returned = client.cache.tools
                   /\ client'.wire = << >>
                   /\ ~client'.transport /\ client'.session = "closed"
                   /\ client'.cache = client.cache
              ELSE client'.pc = "connect"
        /\ (client.pc = "exit" /\ client.op = "get_tools" /\ client'.exc = "none") =>
              /\ client'.cache = Cached(client'.returned)
              /\ \E i \in DOMAIN client'.wire : client'.wire[i] = "list_tools"
        /\ client'.cache # client.cache =>
              \/ client.pc = "idle" /\ client'.op = "clear_cache" /\ client'.cache = NoCache
              \/ client.pc = "body" /\ client.op = "get_tools"
                    /\ client'.pending = "none" ]_vars

\* get_tools(use_cache=True) returned the cached list, two tools, without
\* contacting the server.
C36_Witness ==
    /\ client.pc = "idle"
    /\ client.op = "get_tools"
    /\ client.use_cache
    /\ client.exc = "none"
    /\ client.wire = << >>
    /\ Len(client.returned) = 2
    /\ client.cache = Cached(client.returned)

Sent(request) == { i \in DOMAIN client.wire : client.wire[i] = request }

\* C38: in every session initialize() completes before list_tools() or
\* call_tool() is sent; each operation opens one session of its own, on a
\* client that has none open; and session and transport are closed when
\* the operation has returned or raised.
C38_ProtocolOrder ==
    /\ \A i \in Sent("list_tools") \cup Sent("call_tool") :
          \E j \in Sent("initialize") : j < i
    /\ (client.pc = "body" /\ client.step > 1) => client.session = "initialized"
    /\ (Sent("list_tools") \cup Sent("call_tool") # {}) => client.session # "open"
    /\ Cardinality(Sent("connect")) <= 1
    /\ Cardinality(Sent("initialize")) <= 1
    /\ client.pc \in {"idle", "connect"} => (~client.transport /\ client.session = "closed")
    /\ client.pc = "connect" => client.wire = << >>
    /\ client.session # "closed" => client.transport

\* The integration test ran through: handshake, listing, call, and
\* everything closed.
C38_Witness ==
    /\ client.pc = "idle"
    /\ client.op = "test"
    /\ client.exc = "none"
    /\ client.wire = << "connect", "initialize", "list_tools", "call_tool" >>
    /\ ~client.transport
    /\ client.session = "closed"

\* A location inside the data directory.
InData(at) == Len(at) >= 1 /\ at[1] = "data"

\* C40: the file server touches no location outside /data: every call
\* read_file and list_files make on the file system reaches a location
\* under /data, and a request whose path leads outside /data (by "..", by
\* an absolute path or through a symbolic link) is answered with the
\* access-denied error with no existence check, type check, read or listing
\* made.
C40_StaysInDataDir ==
    served.op # "none" =>
        /\ \A i \in DOMAIN served.touched : InData(served.touched[i].at)
        /\ ~InData(Located(Join(DATA_DIR, served.path))) =>
               /\ served.outcome = "ValueError: Access denied"
               /\ served.touched = << >>

\* read_file of out/hello, a link that leaves /data, was refused.
C40_Witness ==
    /\ served.op = "read_file"
    /\ served.path = [absolute |-> FALSE, parts |-> << "out", "hello" >>]
    /\ served.outcome = "ValueError: Access denied"

\* The phases of run in the order of the code.
Phase(p) ==
    CASE p = "start" -> 0
      [] p = "discover_file" -> 1
      [] p = "discover_db" -> 2
      [] p = "discovered" -> 3
      [] p = "reasoning1" -> 4
      [] p = "parsing" -> 5
      [] p = "executing" -> 6
      [] p = "reasoning2" -> 7
      [] OTHER -> 8

\* What execute_tools has behind it: two for every call that has its
\* result, one for the request waiting for its answer.
Work == 2 * Len(results) + (IF inflight = NoRequest THEN 0 ELSE 1)

\* The run is over and its last event is FINAL_ANSWER or ERROR.
RunEnded ==
    /\ pc = "done"
    /\ events # << >>
    /\ Last(events).type \in {"final_answer", "error"}

\* C39: a run whose backend calls all complete, time out or error reaches
\* its terminal event, FINAL_ANSWER or ERROR, and every step takes it
\* forward: to a later phase, or within the execution of the batch
\* to more work done; no step goes back to an earlier phase.
C39_RunTerminates ==
    /\ (mode = "run") ~> RunEnded
    /\ [][\/ Phase(pc') > Phase(pc)
          \/ Phase(pc') = Phase(pc) /\ pc = "executing" /\ Work' > Work]_vars

\* A run ended with its answer after a batch in which a call failed.
C39_Witness ==
    /\ mode = "run"
    /\ RunEnded
    /\ Last(events).type = "final_answer"
    /\ Len(tool_calls) = MaxBatch
    /\ Len(results) = Len(tool_calls)
    /\ \E k \in DOMAIN results : results[k].error # "none"

====
